---- MODULE Spec2Model ----
(***************************************************************************)
(* A model of upspeak's command path: the Repository's HandleInputEvent    *)
(* (core), the LocalArchive storage engine (archive/local.go: SQLite rows  *)
(* plus one blob file per node), the repo module's bus handler             *)
(* (repo/repo.go) and the archive module's cascade-delete listener         *)
(* (archive/archive.go).                                                   *)
(*                                                                         *)
(* Conventions.  A Go pointer is a sequence of length 0 (nil) or 1.  A     *)
(* table is a function whose DOMAIN is the set of primary keys present.    *)
(* A Go error is a string, "" for nil.  A NATS subject is its sequence of  *)
(* dot-separated tokens.                                                   *)
(***************************************************************************)
EXTENDS Naturals, Sequences, FiniteSets, TLC

(***************************************************************************)
(* Bounded input domains.                                                  *)
(***************************************************************************)
\* Longest listener inbox the model lets build up.
MaxQueue == 1

\* The zero xid.ID, what a missing id field decodes to.
NilID == "nil"

NodeIds == {"n1", "n2", "n3"}
EdgeIds == {"e1", "e2"}
Bodies == {"", "b1"}
Kinds == {"Node"}
RepoId == "r1"

\* A time.Time: whole seconds and the nanoseconds within the second.
Time(sec, nsec) == [sec |-> sec, nsec |-> nsec]

\* The zero time.Time, what a field that is never assigned holds.
ZeroTime == Time(0, 0)

\* A creation time on a whole second, and one with a fraction of a second.
WholeSecond == Time(1, 0)
WithFraction == Time(1, 5)

\* t.Format("2006-01-02T15:04:05Z07:00"): the layout has no fractional
\* seconds, so the string holds the whole seconds alone.
FormatTime(t) == [seconds |-> t.sec]

\* time.Parse of such a string.
ParseTime(str) == Time(str.seconds, 0)

\* core.Node reduced to the fields the archive treats differently: the key,
\* the kind (column "type"), the body (the blob file) and the creation time.
Node(id, body, at) == [id |-> id, type |-> "Node", body |-> body, created_at |-> at]

\* Nodes are saved under two of the three ids; the third is only ever
\* referred to by edges and by deletes.  Commands carry whole-second times.
SavedIds == {"n1", "n2"}
NodeVals == {Node(i, b, WholeSecond) : i \in SavedIds, b \in Bodies}

\* core.Edge reduced to key, source, target and creation time.
Edge(id, source, target, at) ==
  [id |-> id, source |-> source, target |-> target, created_at |-> at]

EdgeVals ==
  { Edge("e1", "n1", "n2", WholeSecond),
    Edge("e1", "n3", "n1", WholeSecond),
    Edge("e2", "n2", "n3", WholeSecond) }

\* core.Thread: the root node and its edges (free-form metadata left out).
ThreadRoots == {"n1"}
ThreadVals ==
  { [node |-> n, edges |-> es] :
      n \in {v \in NodeVals : v.id \in ThreadRoots},
      es \in {<<>>, <<Edge("e1", "n1", "n2", WholeSecond)>>} }

(***************************************************************************)
(* Tables and the blob store.                                              *)
(***************************************************************************)
Upsert(f, k, v) == [x \in (DOMAIN f) \cup {k} |-> IF x = k THEN v ELSE f[x]]

Remove(f, k) == [x \in (DOMAIN f) \ {k} |-> f[x]]

NoFiles == [x \in {} |-> ""]

\* An entry of the archive root directory: a regular file with its bytes, or
\* a directory with the files in it.
File(b) == [kind |-> "file", body |-> b, files |-> NoFiles]

Dir(fs) == [kind |-> "dir", body |-> "", files |-> fs]

Exists(fs, name) == name \in DOMAIN fs

IsDir(fs, name) == Exists(fs, name) /\ fs[name].kind = "dir"

IsFile(fs, name) == Exists(fs, name) /\ fs[name].kind = "file"

\* The archive after NewLocalArchive on a fresh path: empty tables, no blobs.
EmptyArchive ==
  [ nodes |-> [x \in {} |-> [type |-> "", created_at |-> FormatTime(ZeroTime)]],
    edges |-> [x \in {} |-> [source |-> "", target |-> "",
                              created_at |-> FormatTime(ZeroTime)]],
    threads |-> {},
    thread_edges |-> {},
    annotations |-> [x \in {} |-> [edge_id |-> "", motivation |-> ""]],
    fs |-> [x \in {} |-> File("")] ]

Ok(ar) == [ar |-> ar, err |-> ""]

Fail(ar, msg) == [ar |-> ar, err |-> msg]

(***************************************************************************)
(* LocalArchive: nodes.  `fault` names an injected environment failure:    *)
(* "db" makes the operation's first SQL statement fail (for a thread       *)
(* operation: opening its transaction), "fs" its first file operation,     *)
(* "tx" the first statement run on a thread operation's transaction,       *)
(* "none" nothing.                                                         *)
(***************************************************************************)
Faults == {"none", "db", "fs", "tx"}

\* SaveNode, were its statement a plain INSERT, which a row with the same
\* primary key makes fail.
SaveNodeInsertOnly(ar, np, fault) ==
  IF np = <<>> THEN Fail(ar, "node is nil")
  ELSE IF fault = "db" \/ np[1].id \in DOMAIN ar.nodes
    THEN Fail(ar, "failed to save node metadata")
  ELSE
    LET node == np[1]
        a1 == [ar EXCEPT !.nodes =
                 Upsert(@, node.id, [type |-> node.type,
                                     created_at |-> FormatTime(node.created_at)])]
    IN IF node.body = "" THEN Ok(a1)
       ELSE IF fault = "fs" \/ IsDir(a1.fs, node.id)
         THEN Fail(a1, "failed to save node content")
       ELSE Ok([a1 EXCEPT !.fs = Upsert(@, node.id, File(node.body))])

SaveNode(ar, np, fault) ==
  IF np = <<>> THEN Fail(ar, "node is nil")
  ELSE IF fault = "db" THEN Fail(ar, "failed to save node metadata")
  ELSE
    LET node == np[1]
        a1 == [ar EXCEPT !.nodes =
                 Upsert(@, node.id, [type |-> node.type,
                                     created_at |-> FormatTime(node.created_at)])]
    IN IF node.body = "" THEN Ok(a1)
       ELSE IF fault = "fs" \/ IsDir(a1.fs, node.id)
         THEN Fail(a1, "failed to save node content")
       ELSE Ok([a1 EXCEPT !.fs = Upsert(@, node.id, File(node.body))])

\* The result of a Get: the value (a pointer), the error, and for a NotFound
\* error the resource kind and id it carries.
Found(v) == [val |-> <<v>>, err |-> "", resource |-> "", id |-> ""]

NotFound(resource, id) ==
  [val |-> <<>>, err |-> "NotFound", resource |-> resource, id |-> id]

GetFailed(msg) == [val |-> <<>>, err |-> msg, resource |-> "", id |-> ""]

GetNode(ar, id) ==
  IF id \notin DOMAIN ar.nodes THEN NotFound("node", id)
  ELSE IF IsDir(ar.fs, id) THEN GetFailed("failed to read node content")
  ELSE Found([id |-> id, type |-> ar.nodes[id].type,
              body |-> IF IsFile(ar.fs, id) THEN ar.fs[id].body ELSE "",
              created_at |-> ParseTime(ar.nodes[id].created_at)])

\* DeleteNode, were it to remove the content file and leave the row.
DeleteNodeContentOnly(ar, id, fault) ==
  IF fault = "db" THEN Fail(ar, "failed to delete node metadata")
  ELSE IF ~Exists(ar.fs, id) THEN Ok(ar)
  ELSE IF fault = "fs" \/ (IsDir(ar.fs, id) /\ DOMAIN ar.fs[id].files # {})
    THEN Fail(ar, "failed to delete node content")
  ELSE Ok([ar EXCEPT !.fs = Remove(@, id)])

DeleteNode(ar, id, fault) ==
  IF fault = "db" THEN Fail(ar, "failed to delete node metadata")
  ELSE
    LET a1 == [ar EXCEPT !.nodes = Remove(@, id)]
    IN IF ~Exists(a1.fs, id) THEN Ok(a1)
       ELSE IF fault = "fs" \/ (IsDir(a1.fs, id) /\ DOMAIN a1.fs[id].files # {})
         THEN Fail(a1, "failed to delete node content")
       ELSE Ok([a1 EXCEPT !.fs = Remove(@, id)])

(***************************************************************************)
(* LocalArchive: edges.  `locked` says that another connection's open      *)
(* transaction holds SQLite's write lock, so this statement is refused.    *)
(***************************************************************************)
SaveEdgeOn(ar, ep, fault, locked) ==
  IF ep = <<>> THEN Fail(ar, "edge is nil")
  ELSE IF fault = "db" \/ locked THEN Fail(ar, "failed to save edge")
  ELSE Ok([ar EXCEPT !.edges =
             Upsert(@, ep[1].id, [source |-> ep[1].source, target |-> ep[1].target,
                                  created_at |-> FormatTime(ep[1].created_at)])])

SaveEdge(ar, ep, fault) == SaveEdgeOn(ar, ep, fault, FALSE)

\* GetEdge, were it to return the zero Edge when no row is found.
GetEdgeZeroValue(ar, id) ==
  IF id \notin DOMAIN ar.edges THEN Found(Edge(NilID, NilID, NilID, ZeroTime))
  ELSE Found(Edge(id, ar.edges[id].source, ar.edges[id].target, ZeroTime))

\* The created_at column is scanned into a local string and never parsed
\* into edge.CreatedAt, which keeps its zero value.
GetEdge(ar, id) ==
  IF id \notin DOMAIN ar.edges THEN NotFound("edge", id)
  ELSE Found(Edge(id, ar.edges[id].source, ar.edges[id].target, ZeroTime))

DeleteEdge(ar, id, fault) ==
  IF fault = "db" THEN Fail(ar, "failed to delete edge")
  ELSE Ok([ar EXCEPT !.edges = Remove(@, id)])

\* The WHERE clause, were it to name the source column alone.
TouchesSourceOnly(row, n) == row.source = n

\* WHERE source = ? OR target = ?
Touches(row, n) == row.source = n \/ row.target = n

DeleteEdgesByNode(ar, n, fault) ==
  IF fault = "db" THEN Fail(ar, "failed to delete edges by node")
  ELSE Ok([ar EXCEPT !.edges =
             [e \in {x \in DOMAIN ar.edges : ~Touches(ar.edges[x], n)} |-> ar.edges[e]]])

(***************************************************************************)
(* LocalArchive: threads.                                                  *)
(***************************************************************************)
\* The lock, were the saves to run on the transaction's own connection.
LockedByOwnTxNever(txWrote) == FALSE

\* SaveThread opens a transaction tx on one connection and then saves the
\* root node and the edges through a.db, that is on another connection.  Once
\* tx has executed a write it holds the database's write lock until it
\* commits or rolls back, and a write on the other connection is refused.
LockedByOwnTx(txWrote) == txWrote

JoinsOf(joins, root) == {j \in joins : j[1] = root}

RECURSIVE SaveThreadEdges(_, _, _, _, _, _)
\* The loop over thread.Edges from index i: `ar` takes the writes made through
\* a.db at once, `joins` is the join table as the open transaction sees it,
\* `ids` collects the node ids whose blobs are to be moved.
SaveThreadEdges(ar, root, edges, i, joins, ids) ==
  IF i > Len(edges) THEN [ar |-> ar, err |-> "", joins |-> joins, ids |-> ids]
  ELSE
    LET edge == edges[i]
        se == SaveEdgeOn(ar, <<edge>>, "none", LockedByOwnTx(TRUE))
    IN IF se.err # ""
         THEN [ar |-> se.ar, err |-> "failed to save thread edge",
               joins |-> joins, ids |-> ids]
       ELSE IF <<root, edge.id>> \in joins
         THEN [ar |-> se.ar, err |-> "failed to link edge to thread",
               joins |-> joins, ids |-> ids]
       ELSE SaveThreadEdges(se.ar, root, edges, i + 1,
                            joins \cup {<<root, edge.id>>},
                            ids \cup {edge.source, edge.target})

RECURSIVE MoveBlobs(_, _, _, _, _)
\* The loop that copies each collected node's blob into the thread directory,
\* visiting the ids in the order `order` lists them (Go leaves the iteration
\* order of a map open).
MoveBlobs(ar, root, ids, order, i) ==
  IF i > Len(order) THEN Ok(ar)
  ELSE
    LET id == order[i]
    IN IF id \notin ids \/ ~Exists(ar.fs, id)
         THEN MoveBlobs(ar, root, ids, order, i + 1)
       ELSE IF IsDir(ar.fs, id) THEN Fail(ar, "failed to read node content")
       ELSE IF ~IsDir(ar.fs, root)
         THEN Fail(ar, "failed to write node to thread directory")
       ELSE
         LET content == ar.fs[id].body
             copied == [ar EXCEPT !.fs[root].files = Upsert(@, id, content)]
             moved == IF id # root
                        THEN [copied EXCEPT !.fs = Remove(@, id)]
                        ELSE copied
         IN MoveBlobs(moved, root, ids, order, i + 1)

SaveThread(ar, tp, fault, order) ==
  IF tp = <<>> THEN Fail(ar, "thread is nil")
  ELSE
    LET t == tp[1]
        root == t.node.id
    IN
    \* os.MkdirAll(threadDir): the directory has the path of the root's blob.
    IF fault = "fs" \/ IsFile(ar.fs, root)
      THEN Fail(ar, "failed to create thread directory")
    ELSE
      LET a1 == IF IsDir(ar.fs, root) THEN ar
                ELSE [ar EXCEPT !.fs = Upsert(@, root, Dir(NoFiles))]
      IN
      IF fault = "db" THEN Fail(a1, "failed to start transaction")
      ELSE
        LET sn == SaveNode(a1, <<t.node>>, "none")
        IN
        IF sn.err # "" THEN Fail(sn.ar, "failed to save thread node")
        ELSE IF fault = "tx" THEN Fail(sn.ar, "failed to save thread")
        ELSE
          LET loop == SaveThreadEdges(sn.ar, root, t.edges, 1,
                                      sn.ar.thread_edges \ JoinsOf(sn.ar.thread_edges, root),
                                      {root})
          IN
          \* A failure before the commit rolls the transaction back: the rows
          \* written through a.db stay.
          IF loop.err # "" THEN Fail(loop.ar, loop.err)
          ELSE
            LET committed == [loop.ar EXCEPT !.threads = @ \cup {root},
                                             !.thread_edges = loop.joins]
            IN MoveBlobs(committed, root, loop.ids, order, 1)

EdgeOfRow(ar, id) == GetEdge(ar, id).val[1]

\* GetThread's value: the root node and the edges, whose order is that of an
\* unordered SQL query and is kept as a set here.
GetThread(ar, id) ==
  IF id \notin ar.threads THEN NotFound("thread", id)
  ELSE
    LET gn == GetNode(ar, id)
    IN
    IF gn.err # "" THEN GetFailed("failed to get thread node")
    ELSE
      LET node == IF IsDir(ar.fs, id) /\ id \in DOMAIN ar.fs[id].files
                    THEN [gn.val[1] EXCEPT !.body = ar.fs[id].files[id]]
                    ELSE gn.val[1]
          eids == {j[2] : j \in JoinsOf(ar.thread_edges, id)}
      IN IF \E e \in eids : e \notin DOMAIN ar.edges
           THEN GetFailed("failed to get edge")
         ELSE Found([node |-> node, edges |-> {EdgeOfRow(ar, e) : e \in eids}])

\* DeleteThread, were it to stop after removing the directory.
DeleteThreadKeepsRoot(ar, id, fault) ==
  IF fault = "db" THEN Fail(ar, "failed to start transaction")
  ELSE IF fault = "tx" THEN Fail(ar, "failed to delete thread edges")
  ELSE
    LET a1 == [ar EXCEPT !.threads = @ \ {id},
                         !.thread_edges = @ \ JoinsOf(@, id)]
    IN IF fault = "fs" THEN Fail(a1, "failed to delete thread directory")
       ELSE Ok([a1 EXCEPT !.fs = Remove(@, id)])

\* DeleteThread, were it to remove the archive's directory of blobs instead
\* of the thread's.
DeleteThreadRemovesBlobs(ar, id, fault) ==
  IF fault = "db" THEN Fail(ar, "failed to start transaction")
  ELSE IF fault = "tx" THEN Fail(ar, "failed to delete thread edges")
  ELSE
    LET a1 == [ar EXCEPT !.threads = @ \ {id},
                         !.thread_edges = @ \ JoinsOf(@, id)]
    IN IF fault = "fs" THEN Fail(a1, "failed to delete thread directory")
       ELSE DeleteNode([a1 EXCEPT !.fs = NoFiles], id, "none")

DeleteThread(ar, id, fault) ==
  IF fault = "db" THEN Fail(ar, "failed to start transaction")
  ELSE IF fault = "tx" THEN Fail(ar, "failed to delete thread edges")
  ELSE
    LET a1 == [ar EXCEPT !.threads = @ \ {id},
                         !.thread_edges = @ \ JoinsOf(@, id)]
    IN IF fault = "fs" THEN Fail(a1, "failed to delete thread directory")
       ELSE DeleteNode([a1 EXCEPT !.fs = Remove(@, id)], id, "none")

(***************************************************************************)
(* LocalArchive: annotations.                                              *)
(***************************************************************************)
SaveAnnotation(ar, ap, fault) ==
  IF ap = <<>> THEN Fail(ar, "annotation is nil")
  ELSE
    LET a == ap[1]
        sn == SaveNode(ar, <<a.node>>, fault)
        se == SaveEdge(sn.ar, <<a.edge>>, "none")
    IN IF sn.err # "" THEN Fail(sn.ar, "failed to save annotation node")
       ELSE IF se.err # "" THEN Fail(se.ar, "failed to save annotation edge")
       ELSE Ok([se.ar EXCEPT !.annotations =
                  Upsert(@, a.node.id, [edge_id |-> a.edge.id,
                                        motivation |-> a.motivation])])

GetAnnotation(ar, id) ==
  IF id \notin DOMAIN ar.annotations THEN NotFound("annotation", id)
  ELSE
    LET gn == GetNode(ar, id)
        ge == GetEdge(ar, ar.annotations[id].edge_id)
    IN IF gn.err # "" THEN GetFailed("failed to get annotation node")
       ELSE IF ge.err # "" THEN GetFailed("failed to get annotation edge")
       ELSE Found([node |-> gn.val[1], edge |-> ge.val[1],
                   motivation |-> ar.annotations[id].motivation])

\* DeleteAnnotation starts with GetAnnotation and returns its error as it is.
DeleteAnnotation(ar, id, fault) ==
  LET ga == GetAnnotation(ar, id)
  IN IF ga.err # "" THEN Fail(ar, ga.err)
     ELSE IF fault = "db" THEN Fail(ar, "failed to delete annotation")
     ELSE
       LET a1 == [ar EXCEPT !.annotations = Remove(@, id)]
           de == DeleteEdge(a1, ga.val[1].edge.id, "none")
       IN IF de.err # "" THEN Fail(de.ar, "failed to delete annotation edge")
          ELSE DeleteNode(de.ar, id, "none")

\* The node ids a thread of ThreadVals refers to, and the orders in which a
\* map over them can be iterated.
ThreadNodeIds ==
  UNION {{t.node.id} \cup UNION {{t.edges[i].source, t.edges[i].target} : i \in DOMAIN t.edges}
         : t \in ThreadVals}

Orders ==
  {o \in [1..Cardinality(ThreadNodeIds) -> ThreadNodeIds] :
     \A n \in ThreadNodeIds : \E i \in DOMAIN o : o[i] = n}

(***************************************************************************)
(* Events.  A payload is the JSON object it decodes from, a function from  *)
(* field names to values; Malformed stands for a payload that is not a     *)
(* JSON object (no struct decodes from it), EmptyObject for {}.            *)
(***************************************************************************)
CommandTypes ==
  {"CreateNode", "UpdateNode", "DeleteNode", "CreateEdge", "UpdateEdge",
   "DeleteEdge", "CreateThread", "UpdateThread", "DeleteThread"}

DomainTypes ==
  {"NodeCreated", "NodeUpdated", "NodeDeleted", "EdgeCreated", "EdgeUpdated",
   "EdgeDeleted", "ThreadCreated", "ThreadUpdated", "ThreadDeleted"}

\* Type strings that are no command: two domain-event types, the empty string
\* and a string that is no event type at all.
OtherTypes == {"NodeCreated", "NodeDeleted", "", "Bogus"}

Malformed == [malformed |-> TRUE]

EmptyObject == [unknown_field |-> TRUE]

\* json.Unmarshal into a payload struct fails exactly on a non-object.
Undecodable(p) == "malformed" \in DOMAIN p

\* A pointer field: nil when the object lacks it.
PtrField(p, f) == IF f \in DOMAIN p THEN <<p[f]>> ELSE <<>>

\* An xid.ID field: the zero id when the object lacks it.
IdField(p, f) == IF f \in DOMAIN p THEN p[f] ELSE NilID

\* core.NewEvent: the envelope around a marshalled payload (the fresh event
\* id is left out).
NewEvent(type, payload) == [type |-> type, payload |-> payload]

\* The payloads a command of type t is tried with: the shape its payload
\* struct declares, for an update also the shape of the create payload
\* (and for UpdateEdge the {edge_id, updated_edge} shape), {} and a non-object.
PayloadsFor(t) ==
  {Malformed, EmptyObject} \cup
  CASE t = "CreateNode" -> {[node |-> n] : n \in NodeVals}
    [] t = "UpdateNode" ->
         {[node_id |-> n.id, updated_node |-> n] : n \in NodeVals}
         \cup {[node |-> n] : n \in {v \in NodeVals : v.id = "n1" /\ v.body = ""}}
    [] t = "DeleteNode" -> {[node_id |-> i] : i \in NodeIds}
    [] t = "CreateEdge" -> {[edge |-> e] : e \in EdgeVals}
    [] t = "UpdateEdge" ->
         {[edge |-> e] : e \in EdgeVals}
         \cup {[edge_id |-> e.id, updated_edge |-> e] : e \in EdgeVals}
    [] t = "DeleteEdge" -> {[edge_id |-> i] : i \in EdgeIds}
    [] t = "CreateThread" -> {[thread |-> th] : th \in ThreadVals}
    [] t = "UpdateThread" ->
         {[thread_id |-> th.node.id, updated_thread |-> th] : th \in ThreadVals}
    [] t = "DeleteThread" -> {[thread_id |-> i] : i \in ThreadRoots}
    [] t = "NodeDeleted" -> {[node_id |-> i] : i \in NodeIds}
    [] OTHER -> {}

Events(types) == UNION {{NewEvent(t, p) : p \in PayloadsFor(t)} : t \in types}

(***************************************************************************)
(* Repository.HandleInputEvent.  The result: the archive afterwards, the   *)
(* returned event (a pointer), the error type, and the Archive calls made, *)
(* each with its argument and the error the Archive returned.              *)
(***************************************************************************)
Call(op, arg, err) == [op |-> op, arg |-> arg, err |-> err]

Rejected(ar, err, calls) == [ar |-> ar, out |-> <<>>, err |-> err, calls |-> calls]

Accepted(ar, ev, calls) == [ar |-> ar, out |-> <<ev>>, err |-> "", calls |-> calls]

\* Branch, were it to drop the Archive's error and build the event anyway.
BranchAbsorbing(ar, p, res, errType, op, arg, ev) ==
  IF Undecodable(p) THEN Rejected(ar, "Unmarshal", <<>>)
  ELSE Accepted(res.ar, ev, <<Call(op, arg, res.err)>>)

\* The shape every case of the switch has: decode the payload, make one
\* Archive call, build the outgoing event.
Branch(ar, p, res, errType, op, arg, ev) ==
  IF Undecodable(p) THEN Rejected(ar, "Unmarshal", <<>>)
  ELSE IF res.err # "" THEN Rejected(res.ar, errType, <<Call(op, arg, res.err)>>)
  ELSE Accepted(res.ar, ev, <<Call(op, arg, "")>>)

CreateNodeCase(ar, p, fault) ==
  LET np == PtrField(p, "node")
  IN Branch(ar, p, SaveNode(ar, np, fault), "Save", "SaveNode", np,
            NewEvent("NodeCreated", [node |-> np]))

\* The UpdateNode case, were it to delete the old node before saving the new.
UpdateNodeCaseTwoCalls(ar, p, fault) ==
  LET np == PtrField(p, "updated_node")
      id == IdField(p, "node_id")
      d == DeleteNode(ar, id, fault)
      sv == SaveNode(d.ar, np, fault)
      first == Call("DeleteNode", id, d.err)
  IN IF Undecodable(p) THEN Rejected(ar, "Unmarshal", <<>>)
     ELSE IF d.err # "" THEN Rejected(d.ar, "Delete", <<first>>)
     ELSE IF sv.err # ""
       THEN Rejected(sv.ar, "Save", <<first, Call("SaveNode", np, sv.err)>>)
     ELSE Accepted(sv.ar,
                   NewEvent("NodeUpdated", [node_id |-> id, updated_node |-> np]),
                   <<first, Call("SaveNode", np, "")>>)

UpdateNodeCase(ar, p, fault) ==
  LET np == PtrField(p, "updated_node")
  IN Branch(ar, p, SaveNode(ar, np, fault), "Save", "SaveNode", np,
            NewEvent("NodeUpdated",
                     [node_id |-> IdField(p, "node_id"), updated_node |-> np]))

\* The DeleteNode case, were it to leave the id out of the outgoing payload.
DeleteNodeCaseZeroId(ar, p, fault) ==
  LET id == IdField(p, "node_id")
  IN Branch(ar, p, DeleteNode(ar, id, fault), "Delete", "DeleteNode", id,
            NewEvent("NodeDeleted", [node_id |-> NilID]))

DeleteNodeCase(ar, p, fault) ==
  LET id == IdField(p, "node_id")
  IN Branch(ar, p, DeleteNode(ar, id, fault), "Delete", "DeleteNode", id,
            NewEvent("NodeDeleted", [node_id |-> id]))

CreateEdgeCase(ar, p, fault) ==
  LET ep == PtrField(p, "edge")
  IN Branch(ar, p, SaveEdge(ar, ep, fault), "Save", "SaveEdge", ep,
            NewEvent("EdgeCreated", [edge |-> ep]))

\* The UpdateEdge case, were it to decode an EventEdgeUpdatePayload.
UpdateEdgeCaseUpdatePayload(ar, p, fault) ==
  LET ep == PtrField(p, "updated_edge")
  IN Branch(ar, p, SaveEdge(ar, ep, fault), "Save", "SaveEdge", ep,
            NewEvent("EdgeUpdated",
                     [edge_id |-> IdField(p, "edge_id"), updated_edge |-> ep]))

\* The UpdateEdge case decodes the payload as an EventEdgeCreatePayload and
\* reads payload.Edge.ID for the outgoing event.
UpdateEdgeCase(ar, p, fault) ==
  LET ep == PtrField(p, "edge")
  IN Branch(ar, p, SaveEdge(ar, ep, fault), "Save", "SaveEdge", ep,
            NewEvent("EdgeUpdated",
                     [edge_id |-> IF ep = <<>> THEN NilID ELSE ep[1].id,
                      updated_edge |-> ep]))

DeleteEdgeCase(ar, p, fault) ==
  LET id == IdField(p, "edge_id")
  IN Branch(ar, p, DeleteEdge(ar, id, fault), "Delete", "DeleteEdge", id,
            NewEvent("EdgeDeleted", [edge_id |-> id]))

CreateThreadCase(ar, p, fault, order) ==
  LET tp == PtrField(p, "thread")
  IN Branch(ar, p, SaveThread(ar, tp, fault, order), "Save", "SaveThread", tp,
            NewEvent("ThreadCreated", [thread |-> tp]))

UpdateThreadCase(ar, p, fault, order) ==
  LET tp == PtrField(p, "updated_thread")
  IN Branch(ar, p, SaveThread(ar, tp, fault, order), "Save", "SaveThread", tp,
            NewEvent("ThreadUpdated",
                     [thread_id |-> IdField(p, "thread_id"), updated_thread |-> tp]))

DeleteThreadCase(ar, p, fault) ==
  LET id == IdField(p, "thread_id")
  IN Branch(ar, p, DeleteThread(ar, id, fault), "Delete", "DeleteThread", id,
            NewEvent("ThreadDeleted", [thread_id |-> id]))

\* The default case, were it to report a decoding error.
UnknownTypeCaseAsUnmarshal(ar, type) == Rejected(ar, "Unmarshal", <<>>)

\* The default case of the switch.
UnknownTypeCase(ar, type) == Rejected(ar, "UnknownEventType", <<>>)

HandleInputEvent(ar, ev, fault, order) ==
  CASE ev.type = "CreateNode" -> CreateNodeCase(ar, ev.payload, fault)
    [] ev.type = "UpdateNode" -> UpdateNodeCase(ar, ev.payload, fault)
    [] ev.type = "DeleteNode" -> DeleteNodeCase(ar, ev.payload, fault)
    [] ev.type = "CreateEdge" -> CreateEdgeCase(ar, ev.payload, fault)
    [] ev.type = "UpdateEdge" -> UpdateEdgeCase(ar, ev.payload, fault)
    [] ev.type = "DeleteEdge" -> DeleteEdgeCase(ar, ev.payload, fault)
    [] ev.type = "CreateThread" -> CreateThreadCase(ar, ev.payload, fault, order)
    [] ev.type = "UpdateThread" -> UpdateThreadCase(ar, ev.payload, fault, order)
    [] ev.type = "DeleteThread" -> DeleteThreadCase(ar, ev.payload, fault)
    [] OTHER -> UnknownTypeCase(ar, ev.type)

(***************************************************************************)
(* The bus.                                                                *)
(***************************************************************************)
\* The subject the repo module subscribes its command handler to.
RepoInSubject(repoID) == <<"repo", repoID, "in">>

\* The subject the repo module publishes a repository's facts on.
RepoOutSubject(repoID) == <<"repo", repoID, "out">>

\* The archive module's subscription for the cascade-delete listener.
ListenerSubject == <<"repos", "*", "out">>

\* The subjects the README gives for a repository's commands and facts.
DocInSubject(repoID) == <<"repos", repoID, "in">>

DocOutSubject(repoID) == <<"repos", repoID, "out">>

\* NATS subject matching: token by token, "*" matching any one token.
Matches(pattern, subject) ==
  /\ Len(pattern) = Len(subject)
  /\ \A i \in DOMAIN pattern : pattern[i] = "*" \/ pattern[i] = subject[i]

\* A message whose bytes are no JSON event envelope.
Garbage == [type |-> "#not-json", payload |-> Malformed]

(***************************************************************************)
(* State.                                                                  *)
(***************************************************************************)
VARIABLES
  archive,   \* the LocalArchive shared by the repository and the listener
  inbox,     \* messages delivered to the listener's subscription, not yet handled
  last,      \* what the handler run in progress did; who = "none" between runs
  deleted,   \* node ids with an accepted DeleteNode and no node row since
  run,       \* two repositories' handlers at work on the archive at once
  app,       \* the App: registered modules, root module, readiness, Start/Stop progress
  graph      \* a core.Graph, and the EventLog of the events its operations returned

vars == <<archive, inbox, last, deleted, run, app, graph>>

\* A handler run: who ran, on which message, under which injected failure,
\* HandleInputEvent's result (out, err, calls), what was published, whether
\* Publish failed, and the archive the run started from where it is kept.
Step(who, cmd, fault, out, err, calls, published, pubFailed, before) ==
  [who |-> who, cmd |-> cmd, fault |-> fault, out |-> out, err |-> err,
   calls |-> calls, published |-> published, pubFailed |-> pubFailed,
   before |-> before]

\* The `before` of a run that keeps no snapshot.
NoBefore == EmptyArchive

Idle == Step("none", Garbage, "none", <<>>, "", <<>>, <<>>, FALSE, NoBefore)

\* The repositories of ModuleRepo: each has its own subscription, all share
\* the archive.
Workers == {"r1", "r2"}

\* A call in progress: the method, its argument, the statement it is at, the
\* index of the edge loop, and the error it is about to return.
Proc(op, arg, pc, i, err) ==
  [op |-> op, arg |-> arg, pc |-> pc, i |-> i, err |-> err]

NoProc == Proc("none", <<>>, "done", 0, "")

\* No handler runs concurrently with another: no connection holds SQLite's
\* write lock and none waits for it.
NoRun ==
  [before |-> NoBefore, lock |-> "", waiting |-> <<>>,
   proc |-> [w \in Workers |-> NoProc]]

(***************************************************************************)
(* The App.  Strings that the code inspects character by character (module *)
(* names and mount paths) are sequences of one-character strings.          *)
(***************************************************************************)
NoName == <<>>

\* App as New returns it.  pc is where a call of Start or Stop stands
\* ("idle" when none is in progress), todo the modules the first pass of
\* Start has yet to visit, registered the modules registered so far in
\* order, failedInit the modules whose Init returned an error, started the
\* outcome of the latest Start, call the latest call of AddModule /
\* AddModuleOnPath with the modules it found, wiring how far main has got in
\* connecting the repo module to the archive.
NewApp ==
  [modules |-> <<>>, rootModule |-> NoName, ready |-> FALSE, pc |-> "idle",
   todo |-> {}, registered |-> <<>>, failedInit |-> {}, started |-> "never",
   stopped |-> FALSE, wiring |-> "new",
   call |-> [name |-> NoName, path |-> NoName, err |-> "", before |-> <<>>]]

(***************************************************************************)
(* core.Graph and core.EventLog.                                           *)
(***************************************************************************)
NewGraph == [nodes |-> <<>>, edges |-> <<>>, log |-> <<>>, err |-> ""]

Init ==
  /\ archive = EmptyArchive
  /\ inbox = <<>>
  /\ last = Idle
  /\ deleted = {}
  /\ run = NoRun
  /\ app = NewApp
  /\ graph = NewGraph

\* Publisher.Publish as the bus sees it: the message reaches every
\* subscription whose subject matches; the listener's is the one modelled.
Deliver(q, subject, msg) ==
  IF Matches(ListenerSubject, subject) THEN Append(q, msg) ELSE q

NodeCommands == Events({"CreateNode", "UpdateNode", "DeleteNode"})

EdgeCommands == Events({"CreateEdge", "UpdateEdge", "DeleteEdge"})

ThreadCommands == Events({"CreateThread", "UpdateThread", "DeleteThread"})

OtherMessages == Events(OtherTypes) \cup {Garbage}

\* ModuleRepo.handleInputEvent on a message delivered on the repository's
\* command subject.  pubOk: whether Publisher.Publish returns nil.
RepoHandle(msg, fault, order, pubOk) ==
  /\ last = Idle
  /\ UNCHANGED <<run, app, graph>>
  /\ IF msg = Garbage
       THEN /\ last' = Step("repo", msg, fault, <<>>, "Envelope", <<>>, <<>>,
                            FALSE, NoBefore)
            /\ UNCHANGED <<archive, inbox>>
     ELSE
       LET r == HandleInputEvent(archive, msg, fault, order)
           subject == RepoOutSubject(RepoId)
           send == r.err = "" /\ pubOk
       IN /\ send /\ Matches(ListenerSubject, subject) => Len(inbox) < MaxQueue
          /\ archive' = r.ar
          /\ inbox' = IF send THEN Deliver(inbox, subject, r.out[1]) ELSE inbox
          /\ last' = Step("repo", msg, fault, r.out, r.err, r.calls,
                          IF send THEN <<[subject |-> subject, msg |-> r.out[1]]>>
                                  ELSE <<>>,
                          r.err = "" /\ ~pubOk, NoBefore)

\* What another client of the bus publishes on the documented facts subject.
ClientFacts ==
  {NewEvent("NodeDeleted", [node_id |-> i]) : i \in NodeIds}
  \cup {NewEvent("NodeDeleted", Malformed),
        NewEvent("EdgeDeleted", [edge_id |-> "e1"]),
        Garbage}

\* A bus client other than the repo module publishes on the subject the
\* README documents for a repository's facts.
ClientPublish(msg) ==
  /\ last = Idle
  /\ Len(inbox) < MaxQueue
  /\ inbox' = Deliver(inbox, DocOutSubject(RepoId), msg)
  /\ last' = Step("client", msg, "none", <<>>, "", <<>>,
                  <<[subject |-> DocOutSubject(RepoId), msg |-> msg]>>, FALSE,
                  NoBefore)
  /\ UNCHANGED <<archive, deleted, run, app, graph>>

\* ModuleArchive.handleRepositoryEvents on the oldest delivered message.
\* The listener, were it to put a NodeDeleted event whose edge deletion
\* failed back on its queue.
ListenerHandleRequeue(fault) ==
  /\ last = Idle
  /\ inbox # <<>>
  /\ LET msg == Head(inbox)
         ignored == \/ msg = Garbage
                    \/ msg.type # "NodeDeleted"
                    \/ Undecodable(msg.payload)
         id == IdField(msg.payload, "node_id")
         r == DeleteEdgesByNode(archive, id, fault)
     IN /\ inbox' = IF ~ignored /\ r.err # "" THEN Append(Tail(inbox), msg)
                     ELSE Tail(inbox)
        /\ archive' = IF ignored THEN archive ELSE r.ar
        /\ last' = IF ignored
                     THEN Step("listener", msg, fault, <<>>, "Ignored", <<>>, <<>>,
                               FALSE, archive)
                     ELSE Step("listener", msg, fault, <<>>, r.err,
                               <<Call("DeleteEdgesByNode", id, r.err)>>, <<>>,
                               FALSE, archive)
        /\ UNCHANGED <<deleted, run, app, graph>>

\* The listener, were it to publish an EdgeDeleted-style fact on the
\* repository's facts subject after a cascade.
ListenerHandlePublishes(fault) ==
  /\ last = Idle
  /\ UNCHANGED <<run, app, graph>>
  /\ inbox # <<>>
  /\ LET msg == Head(inbox)
         ignored == \/ msg = Garbage
                    \/ msg.type # "NodeDeleted"
                    \/ Undecodable(msg.payload)
         id == IdField(msg.payload, "node_id")
         r == DeleteEdgesByNode(archive, id, fault)
         fact == NewEvent("EdgeDeleted", [edge_id |-> "e1"])
         sent == <<[subject |-> DocOutSubject(RepoId), msg |-> fact]>>
     IN /\ inbox' = Tail(inbox)
        /\ archive' = IF ignored THEN archive ELSE r.ar
        /\ last' = IF ignored
                     THEN Step("listener", msg, fault, <<>>, "Ignored", <<>>, <<>>,
                               FALSE, archive)
                     ELSE Step("listener", msg, fault, <<>>, r.err,
                               <<Call("DeleteEdgesByNode", id, r.err)>>,
                               IF r.err = "" THEN sent ELSE <<>>,
                               FALSE, archive)
        /\ UNCHANGED deleted

ListenerHandle(fault) ==
  /\ last = Idle
  /\ inbox # <<>>
  /\ LET msg == Head(inbox)
         ignored == \/ msg = Garbage
                    \/ msg.type # "NodeDeleted"
                    \/ Undecodable(msg.payload)
         id == IdField(msg.payload, "node_id")
         r == DeleteEdgesByNode(archive, id, fault)
     IN /\ inbox' = Tail(inbox)
        /\ archive' = IF ignored THEN archive ELSE r.ar
        /\ last' = IF ignored
                     THEN Step("listener", msg, fault, <<>>, "Ignored", <<>>, <<>>,
                               FALSE, archive)
                     ELSE Step("listener", msg, fault, <<>>, r.err,
                               <<Call("DeleteEdgesByNode", id, r.err)>>, <<>>,
                               FALSE, archive)
        /\ UNCHANGED <<deleted, run, app, graph>>

\* The handler callback returns to the bus, which dispatches the next message.
Return ==
  /\ last # Idle
  /\ last' = Idle
  /\ UNCHANGED <<archive, inbox, deleted, run, app, graph>>

AnyOrder == CHOOSE o \in Orders : TRUE

(***************************************************************************)
(* Spec: the repository handling commands of every type, with every        *)
(* injected failure.                                                       *)
(***************************************************************************)
Next ==
  \/ \E msg \in NodeCommands, fault \in {"none", "db", "fs"}, pubOk \in BOOLEAN :
       RepoHandle(msg, fault, AnyOrder, pubOk) /\ UNCHANGED deleted
  \/ \E msg \in EdgeCommands, fault \in {"none", "db"}, pubOk \in BOOLEAN :
       RepoHandle(msg, fault, AnyOrder, pubOk) /\ UNCHANGED deleted
  \/ \E msg \in ThreadCommands, fault \in Faults, order \in Orders, pubOk \in BOOLEAN :
       RepoHandle(msg, fault, order, pubOk) /\ UNCHANGED deleted
  \/ \E msg \in OtherMessages :
       RepoHandle(msg, "none", AnyOrder, TRUE) /\ UNCHANGED deleted
  \/ Return

Spec == Init /\ [][Next]_vars

(***************************************************************************)
(* SpecNominal: the same commands when nothing in the environment fails:   *)
(* the database, the file system and Publish all succeed.                  *)
(***************************************************************************)
AllCommands == NodeCommands \cup EdgeCommands \cup ThreadCommands

NextNominal ==
  \/ \E msg \in AllCommands \cup OtherMessages, order \in Orders :
       RepoHandle(msg, "none", order, TRUE) /\ UNCHANGED deleted
  \/ Return

SpecNominal == Init /\ [][NextNominal]_vars

\* Commands that save nodes, with Node.Type taking two values: CreateNode,
\* UpdateNode (also with an updated node whose id differs from node_id) and
\* CreateThread / UpdateThread of an edge-less thread.  No fault is injected.
NodeKinds == Kinds \cup {"Note"}
OfKind(v, kind) == [v EXCEPT !.type = kind]
KindNodes ==
  {OfKind(Node("n1", "", WholeSecond), k) : k \in NodeKinds}
  \cup {Node("n2", "b1", WholeSecond)}

KindCommands ==
  {NewEvent("CreateNode", [node |-> v]) : v \in KindNodes}
  \cup {NewEvent("UpdateNode", [node_id |-> i, updated_node |-> v])
          : i \in SavedIds, v \in KindNodes}
  \cup {NewEvent("CreateThread", [thread |-> [node |-> v, edges |-> <<>>]])
          : v \in KindNodes}
  \cup {NewEvent("UpdateThread",
                 [thread_id |-> v.id,
                  updated_thread |-> [node |-> v, edges |-> <<>>]])
          : v \in KindNodes}

NextKinds ==
  \/ \E msg \in KindCommands :
       RepoHandle(msg, "none", AnyOrder, TRUE) /\ UNCHANGED deleted
  \/ Return

SpecKinds == Init /\ [][NextKinds]_vars

\* CreateNode and DeleteNode commands as any bus client may publish them,
\* among them CreateNode commands whose node has no id (the zero xid).
UnidentifiedNodes == {Node(NilID, b, WholeSecond) : b \in Bodies}

CreateCommands ==
  {NewEvent("CreateNode", [node |-> v]) : v \in NodeVals \cup UnidentifiedNodes}
  \cup {NewEvent("DeleteNode", [node_id |-> i]) : i \in SavedIds}

NextCreate ==
  \/ \E msg \in CreateCommands :
       RepoHandle(msg, "none", AnyOrder, TRUE) /\ UNCHANGED deleted
  \/ Return

SpecCreate == Init /\ [][NextCreate]_vars

(***************************************************************************)
(* SpecArchive: the methods of the LocalArchive called one after another,  *)
(* directly, when nothing in the environment fails.  Each run keeps the    *)
(* archive it started from in `before`.                                    *)
(***************************************************************************)
Times == {WholeSecond, WithFraction}

ArchiveNodes == {Node(i, b, t) : i \in SavedIds, b \in Bodies, t \in Times}

ArchiveEdges ==
  {Edge("e1", "n1", "n2", t) : t \in Times}
  \cup {Edge("e2", "n2", "n1", WholeSecond)}

\* core.Annotation: the annotation node, the edge to the annotated node, and
\* the motivation.
ArchiveAnnotations ==
  { [node |-> Node("n2", "b1", WholeSecond),
     edge |-> Edge("e2", "n2", "n1", WholeSecond),
     motivation |-> "commenting"] }

\* The threads SaveThread is called with: those of the commands, and one that
\* lists the same edge twice, which the join table's primary key refuses.
ArchiveThreads ==
  ThreadVals
  \cup { [node |-> Node("n1", "", WholeSecond),
          edges |-> <<Edge("e1", "n1", "n2", WholeSecond),
                      Edge("e1", "n1", "n2", WholeSecond)>>] }

\* The method `op` was called with `arg` and returned res.err, leaving res.ar.
Called(op, payload, arg, res) ==
  /\ last = Idle
  /\ archive' = res.ar
  /\ last' = Step("archive", NewEvent(op, payload), "none", <<>>, res.err,
                  <<Call(op, arg, res.err)>>, <<>>, FALSE, archive)
  /\ UNCHANGED <<inbox, deleted, run, app, graph>>

CallSaveNode(v) ==
  Called("SaveNode", [node |-> v], <<v>>, SaveNode(archive, <<v>>, "none"))

CallDeleteNode(id) ==
  Called("DeleteNode", [node_id |-> id], id, DeleteNode(archive, id, "none"))

CallSaveEdge(e) ==
  Called("SaveEdge", [edge |-> e], <<e>>, SaveEdge(archive, <<e>>, "none"))

CallDeleteEdge(id) ==
  Called("DeleteEdge", [edge_id |-> id], id, DeleteEdge(archive, id, "none"))

CallSaveThread(t, order) ==
  Called("SaveThread", [thread |-> t], <<t>>,
         SaveThread(archive, <<t>>, "none", order))

CallDeleteThread(id) ==
  Called("DeleteThread", [thread_id |-> id], id,
         DeleteThread(archive, id, "none"))

CallSaveAnnotation(a) ==
  Called("SaveAnnotation", [annotation |-> a], <<a>>,
         SaveAnnotation(archive, <<a>>, "none"))

CallDeleteAnnotation(id) ==
  Called("DeleteAnnotation", [annotation_id |-> id], id,
         DeleteAnnotation(archive, id, "none"))

NextArchive ==
  \/ \E v \in ArchiveNodes : CallSaveNode(v)
  \/ \E id \in NodeIds : CallDeleteNode(id)
  \/ \E e \in ArchiveEdges : CallSaveEdge(e)
  \/ \E id \in EdgeIds : CallDeleteEdge(id)
  \/ \E t \in ArchiveThreads, order \in Orders : CallSaveThread(t, order)
  \/ \E id \in SavedIds : CallDeleteThread(id)
  \/ \E a \in ArchiveAnnotations : CallSaveAnnotation(a)
  \/ \E id \in SavedIds : CallDeleteAnnotation(id)
  \/ Return

SpecArchive == Init /\ [][NextArchive]_vars

(***************************************************************************)
(* The archive's methods under I/O failures.  For the reads, "db" makes    *)
(* the first query fail, "stat" makes every os.Stat return an error that   *)
(* is not "does not exist" (the content directory cannot be searched),     *)
(* "read" makes every os.ReadFile fail.                                    *)
(***************************************************************************)
ReadFaults == {"none", "db", "stat", "read"}
WriteFaults == {"db", "fs"}

\* GetNode: the blob is read only if os.Stat returns no error at all.
GetNodeUnder(ar, id, fault) ==
  IF fault = "db" THEN GetFailed("failed to query node")
  ELSE IF id \notin DOMAIN ar.nodes THEN NotFound("node", id)
  ELSE
    LET row == [id |-> id, type |-> ar.nodes[id].type, body |-> "",
                created_at |-> ParseTime(ar.nodes[id].created_at)]
    IN IF fault = "stat" \/ ~Exists(ar.fs, id) THEN Found(row)
       ELSE IF fault = "read" \/ IsDir(ar.fs, id)
         THEN GetFailed("failed to read node content")
       ELSE Found([row EXCEPT !.body = ar.fs[id].body])

\* GetThread: the copy of the root's blob in the thread directory replaces
\* the body only if both os.Stat and os.ReadFile return no error.
GetThreadUnder(ar, id, fault) ==
  IF fault = "db" THEN GetFailed("failed to query thread")
  ELSE IF id \notin ar.threads THEN NotFound("thread", id)
  ELSE
    LET gn == GetNodeUnder(ar, id, fault)
    IN
    IF gn.err # "" THEN GetFailed("failed to get thread node")
    ELSE
      LET copied == IsDir(ar.fs, id) /\ id \in DOMAIN ar.fs[id].files
          node == IF copied /\ fault \notin {"stat", "read"}
                    THEN [gn.val[1] EXCEPT !.body = ar.fs[id].files[id]]
                    ELSE gn.val[1]
          eids == {j[2] : j \in JoinsOf(ar.thread_edges, id)}
      IN IF \E e \in eids : e \notin DOMAIN ar.edges
           THEN GetFailed("failed to get edge")
         ELSE Found([node |-> node, edges |-> {EdgeOfRow(ar, e) : e \in eids}])

\* The method `op` was called with `arg` while `fault` was in effect, and
\* returned res.err, leaving archive ar.
CalledUnder(op, payload, arg, fault, ar, err) ==
  /\ last = Idle
  /\ archive' = ar
  /\ last' = Step("archive", NewEvent(op, payload), fault, <<>>, err,
                  <<Call(op, arg, err)>>, <<>>, FALSE, archive)
  /\ UNCHANGED <<inbox, deleted, run, app, graph>>

CallGetNode(id, fault) ==
  CalledUnder("GetNode", [node_id |-> id], id, fault, archive,
              GetNodeUnder(archive, id, fault).err)

CallGetThread(id, fault) ==
  CalledUnder("GetThread", [thread_id |-> id], id, fault, archive,
              GetThreadUnder(archive, id, fault).err)

CallSaveNodeUnder(v, fault) ==
  LET res == SaveNode(archive, <<v>>, fault)
  IN CalledUnder("SaveNode", [node |-> v], <<v>>, fault, res.ar, res.err)

CallDeleteNodeUnder(id, fault) ==
  LET res == DeleteNode(archive, id, fault)
  IN CalledUnder("DeleteNode", [node_id |-> id], id, fault, res.ar, res.err)

CallSaveEdgeUnder(e, fault) ==
  LET res == SaveEdge(archive, <<e>>, fault)
  IN CalledUnder("SaveEdge", [edge |-> e], <<e>>, fault, res.ar, res.err)

CallDeleteEdgeUnder(id, fault) ==
  LET res == DeleteEdge(archive, id, fault)
  IN CalledUnder("DeleteEdge", [edge_id |-> id], id, fault, res.ar, res.err)

CallSaveThreadUnder(t, fault) ==
  LET res == SaveThread(archive, <<t>>, fault, AnyOrder)
  IN CalledUnder("SaveThread", [thread |-> t], <<t>>, fault, res.ar, res.err)

CallDeleteThreadUnder(id, fault) ==
  LET res == DeleteThread(archive, id, fault)
  IN CalledUnder("DeleteThread", [thread_id |-> id], id, fault, res.ar, res.err)

NextArchiveIO ==
  \/ \E v \in ArchiveNodes : CallSaveNode(v)
  \/ \E e \in ArchiveEdges : CallSaveEdge(e)
  \/ \E t \in ThreadVals : CallSaveThread(t, AnyOrder)
  \/ \E id \in NodeIds, fault \in ReadFaults : CallGetNode(id, fault)
  \/ \E id \in NodeIds, fault \in ReadFaults : CallGetThread(id, fault)
  \/ \E v \in ArchiveNodes, fault \in WriteFaults : CallSaveNodeUnder(v, fault)
  \/ \E id \in NodeIds, fault \in WriteFaults : CallDeleteNodeUnder(id, fault)
  \/ \E e \in ArchiveEdges, fault \in WriteFaults : CallSaveEdgeUnder(e, fault)
  \/ \E id \in EdgeIds, fault \in WriteFaults : CallDeleteEdgeUnder(id, fault)
  \/ \E t \in ThreadVals, fault \in WriteFaults : CallSaveThreadUnder(t, fault)
  \/ \E id \in SavedIds, fault \in WriteFaults : CallDeleteThreadUnder(id, fault)
  \/ Return

SpecArchiveIO == Init /\ [][NextArchiveIO]_vars

(***************************************************************************)
(* SpecCascade: node and edge commands together with the cascade-delete    *)
(* listener and other publishers on the bus; `deleted` follows the         *)
(* accepted DeleteNode commands.                                           *)
(***************************************************************************)
\* The node an accepted DeleteNode command removed.
Gone(step) ==
  IF step.who = "repo" /\ step.err = "" /\ step.cmd.type = "DeleteNode"
    THEN {step.out[1].payload.node_id}
    ELSE {}

\* `deleted`: the nodes that were stored, were removed by an accepted
\* DeleteNode command, and have not been stored again since.
Tracked(msg, pubOk) ==
  /\ RepoHandle(msg, "none", AnyOrder, pubOk)
  /\ deleted' = (deleted \cup (Gone(last') \cap DOMAIN archive.nodes))
                  \ DOMAIN archive'.nodes

\* The commands of the cascade scenarios: nodes without a body are created
\* and deleted, edges are created, updated and deleted.
CascadeCommands ==
  {NewEvent("CreateNode", [node |-> n]) : n \in {v \in NodeVals : v.body = ""}}
  \cup Events({"DeleteNode"})
  \cup EdgeCommands

NextCascade ==
  \/ \E msg \in CascadeCommands, pubOk \in BOOLEAN : Tracked(msg, pubOk)
  \/ \E msg \in ClientFacts : ClientPublish(msg)
  \/ \E fault \in {"none", "db"} : ListenerHandle(fault)
  \/ Return

SpecCascade == Init /\ [][NextCascade]_vars

\* SpecQuiesce: the same when Publish and the listener's delete never fail.
NextQuiesce ==
  \/ \E msg \in CascadeCommands : Tracked(msg, TRUE)
  \/ \E msg \in ClientFacts : ClientPublish(msg)
  \/ ListenerHandle("none")
  \/ Return

SpecQuiesce == Init /\ [][NextQuiesce]_vars

(***************************************************************************)
(* Two repositories handle one command each at the same time.  Each call   *)
(* advances one statement at a time; a statement is one SQL statement or   *)
(* one file operation.  a.db statements run on a pooled connection of      *)
(* their own, tx statements on the transaction's connection.  A statement  *)
(* that finds SQLite's write lock held by another connection waits for the *)
(* driver's busy timeout, which is the same for every connection: waits    *)
(* run out in the order they began.                                        *)
(***************************************************************************)
ConcurrentNodes == {Node("n3", b, WholeSecond) : b \in Bodies}
ConcurrentThreads ==
  ThreadVals \cup {[node |-> Node("n3", "", WholeSecond), edges |-> <<>>]}

ConcurrentCalls ==
  {Proc("SaveNode", <<v>>, "node.exec", 0, "") : v \in ConcurrentNodes}
  \cup {Proc("SaveThread", <<t>>, "mkdir", 0, "") : t \in ConcurrentThreads}

\* The ids of the entities a call's argument names.
EntitiesOf(c) ==
  IF c.op = "SaveNode" THEN {c.arg[1].id}
  ELSE LET t == c.arg[1]
       IN {t.node.id}
          \cup UNION {{t.edges[i].id, t.edges[i].source, t.edges[i].target}
                      : i \in DOMAIN t.edges}

Waiting(w) == \E k \in DOMAIN run.waiting : run.waiting[k] = w
At(w, pc) == run.proc[w].pc = pc /\ ~Waiting(w)
Leave(q, w) == SelectSeq(q, LAMBDA x : x # w)

\* The node a call is saving: SaveNode's argument or SaveThread's root.
NodeOf(c) == IF c.op = "SaveNode" THEN c.arg[1] ELSE c.arg[1].node

\* Whether a statement of w finds the database locked: on a.db by any open
\* transaction that has written, on tx by another one.
Blocked(w, onTx) ==
  IF onTx THEN run.lock \notin {"", w} ELSE run.lock # ""

\* w's call goes on to statement pc; w's call returns err.  SaveThread's
\* deferred tx.Rollback runs on return once the transaction was begun.
Goto(w, pc) == [run EXCEPT !.proc[w].pc = pc]
Returns(w, err) ==
  [run EXCEPT !.proc[w].err = err,
              !.proc[w].pc = IF run.proc[w].op = "SaveThread" /\ err # ""
                                  /\ run.proc[w].pc \notin {"mkdir", "begin"}
                               THEN "rollback" ELSE "done"]
BeginsToWait(w) ==
  /\ run' = [run EXCEPT !.waiting = Append(@, w)]
  /\ UNCHANGED archive

Start(c1, c2) ==
  /\ last = Idle
  /\ run = NoRun
  /\ EntitiesOf(c1) \cap EntitiesOf(c2) = {}
  /\ run' = [run EXCEPT !.before = archive,
                        !.proc = [w \in Workers |-> IF w = "r1" THEN c1 ELSE c2]]
  /\ UNCHANGED <<archive, inbox, last, deleted, app, graph>>

\* SaveNode: a.db.Exec INSERT OR REPLACE INTO nodes.
NodeExec(w) ==
  /\ At(w, "node.exec")
  /\ IF Blocked(w, FALSE) THEN BeginsToWait(w)
     ELSE LET node == NodeOf(run.proc[w])
          IN /\ archive' = [archive EXCEPT !.nodes =
                              Upsert(@, node.id,
                                     [type |-> node.type,
                                      created_at |-> FormatTime(node.created_at)])]
             /\ run' = IF node.body # "" THEN Goto(w, "node.write")
                       ELSE IF run.proc[w].op = "SaveThread" THEN Goto(w, "tx.upsert")
                       ELSE Returns(w, "")
  /\ UNCHANGED <<inbox, last, deleted, app, graph>>

\* SaveNode: os.WriteFile of a non-empty body.
NodeWrite(w) ==
  /\ At(w, "node.write")
  /\ LET node == NodeOf(run.proc[w])
         inThread == run.proc[w].op = "SaveThread"
     IN IF IsDir(archive.fs, node.id)
          THEN /\ run' = Returns(w, IF inThread THEN "failed to save thread node"
                                    ELSE "failed to save node content")
               /\ UNCHANGED archive
        ELSE /\ archive' = [archive EXCEPT !.fs = Upsert(@, node.id, File(node.body))]
             /\ run' = IF inThread THEN Goto(w, "tx.upsert") ELSE Returns(w, "")
  /\ UNCHANGED <<inbox, last, deleted, app, graph>>

\* SaveThread: os.MkdirAll(threadDir).
MkdirAll(w) ==
  /\ At(w, "mkdir")
  /\ LET root == run.proc[w].arg[1].node.id
     IN IF IsFile(archive.fs, root)
          THEN /\ run' = Returns(w, "failed to create thread directory")
               /\ UNCHANGED archive
        ELSE /\ archive' = IF IsDir(archive.fs, root) THEN archive
                           ELSE [archive EXCEPT !.fs = Upsert(@, root, Dir(NoFiles))]
             /\ run' = Goto(w, "begin")
  /\ UNCHANGED <<inbox, last, deleted, app, graph>>

\* SaveThread: a.db.Begin(); the transaction takes no lock until it writes.
Begin(w) ==
  /\ At(w, "begin")
  /\ run' = Goto(w, "node.exec")
  /\ UNCHANGED <<archive, inbox, last, deleted, app, graph>>

\* SaveThread: tx.Exec INSERT OR REPLACE INTO threads, the transaction's first
\* write: it takes the write lock.
TxUpsert(w) ==
  /\ At(w, "tx.upsert")
  /\ IF Blocked(w, TRUE) THEN BeginsToWait(w)
     ELSE /\ run' = [Goto(w, "tx.joins") EXCEPT !.lock = w]
          /\ UNCHANGED archive
  /\ UNCHANGED <<inbox, last, deleted, app, graph>>

\* SaveThread: tx.Exec DELETE FROM thread_edges.
TxDeleteJoins(w) ==
  /\ At(w, "tx.joins")
  /\ run' = [Goto(w, "edge.save") EXCEPT !.proc[w].i = 1]
  /\ UNCHANGED <<archive, inbox, last, deleted, app, graph>>

\* SaveThread's loop over thread.Edges: a.SaveEdge on a.db, then the join
\* row on tx; after the last edge, tx.Commit().
EdgeSave(w) ==
  /\ At(w, "edge.save")
  /\ LET c == run.proc[w]
         t == c.arg[1]
     IN IF c.i > Len(t.edges)
          THEN /\ run' = Goto(w, "commit")
               /\ UNCHANGED archive
        ELSE IF Blocked(w, FALSE) THEN BeginsToWait(w)
        ELSE LET se == SaveEdge(archive, <<t.edges[c.i]>>, "none")
                 linked == {t.edges[k].id : k \in 1..(c.i - 1)}
             IN /\ archive' = se.ar
                /\ run' = IF t.edges[c.i].id \in linked
                            THEN Returns(w, "failed to link edge to thread")
                          ELSE [run EXCEPT !.proc[w].i = c.i + 1]
  /\ UNCHANGED <<inbox, last, deleted, app, graph>>

\* SaveThread: tx.Commit() makes the transaction's rows visible and frees
\* the lock.
Commit(w) ==
  /\ At(w, "commit")
  /\ LET t == run.proc[w].arg[1]
         root == t.node.id
     IN archive' = [archive EXCEPT
                      !.threads = @ \cup {root},
                      !.thread_edges = (@ \ JoinsOf(@, root))
                        \cup {<<root, t.edges[k].id>> : k \in DOMAIN t.edges}]
  /\ run' = [Goto(w, "move") EXCEPT !.lock = ""]
  /\ UNCHANGED <<inbox, last, deleted, app, graph>>

\* SaveThread: the loop that copies blobs into the thread directory.
Relocate(w, order) ==
  /\ At(w, "move")
  /\ LET t == run.proc[w].arg[1]
         ids == {t.node.id}
                \cup UNION {{t.edges[k].source, t.edges[k].target} : k \in DOMAIN t.edges}
         mv == MoveBlobs(archive, t.node.id, ids, order, 1)
     IN /\ archive' = mv.ar
        /\ run' = [run EXCEPT !.proc[w].err = mv.err, !.proc[w].pc = "done"]
  /\ UNCHANGED <<inbox, last, deleted, app, graph>>

\* SaveThread returns an error: the deferred tx.Rollback() drops the
\* transaction's rows and frees the lock if the transaction holds it.
Rollback(w) ==
  /\ At(w, "rollback")
  /\ run' = [Goto(w, "done") EXCEPT !.lock = IF @ = w THEN "" ELSE @]
  /\ UNCHANGED <<archive, inbox, last, deleted, app, graph>>

\* A waiting statement finds the lock free on one of its retries.
Retry(w) ==
  /\ Waiting(w)
  /\ ~Blocked(w, run.proc[w].pc = "tx.upsert")
  /\ run' = [run EXCEPT !.waiting = Leave(@, w)]
  /\ UNCHANGED <<archive, inbox, last, deleted, app, graph>>

\* Every call still running waits for the lock: a statement takes far less
\* than the busy timeout (five seconds by the driver's default), so only
\* then does a timeout run out.
AllWait ==
  \A v \in Workers :
    \/ run.proc[v].pc = "done"
    \/ Waiting(v) /\ Blocked(v, run.proc[v].pc = "tx.upsert")

\* The busy timeout of the longest-waiting statement runs out with the lock
\* still held: the statement fails with "database is locked".
TimeOut(w) ==
  /\ run.waiting # <<>>
  /\ Head(run.waiting) = w
  /\ AllWait
  /\ LET c == run.proc[w]
         err == CASE c.pc = "node.exec" ->
                       IF c.op = "SaveThread" THEN "failed to save thread node"
                       ELSE "failed to save node metadata"
                  [] c.pc = "tx.upsert" -> "failed to save thread"
                  [] c.pc = "edge.save" -> "failed to save thread edge"
     IN run' = [Returns(w, err) EXCEPT !.waiting = Tail(@)]
  /\ UNCHANGED <<archive, inbox, last, deleted, app, graph>>

\* Both handlers have returned.
BothReturned == run # NoRun /\ \A w \in Workers : run.proc[w].pc = "done"

Finish ==
  /\ BothReturned
  /\ run' = NoRun
  /\ UNCHANGED <<archive, inbox, last, deleted, app, graph>>

NextConcurrent ==
  \/ \E c1, c2 \in ConcurrentCalls : Start(c1, c2)
  \/ \E w \in Workers : NodeExec(w)
  \/ \E w \in Workers : NodeWrite(w)
  \/ \E w \in Workers : MkdirAll(w)
  \/ \E w \in Workers : Begin(w)
  \/ \E w \in Workers : TxUpsert(w)
  \/ \E w \in Workers : TxDeleteJoins(w)
  \/ \E w \in Workers : EdgeSave(w)
  \/ \E w \in Workers : Commit(w)
  \/ \E w \in Workers : Relocate(w, AnyOrder)
  \/ \E w \in Workers : Rollback(w)
  \/ \E w \in Workers : Retry(w)
  \/ \E w \in Workers : TimeOut(w)
  \/ Finish

SpecConcurrent == Init /\ [][NextConcurrent]_vars

(***************************************************************************)
(* App: mounting modules.                                                  *)
(***************************************************************************)
ModuleNames == {NoName, <<"u", "i">>, <<"a", "p", "i">>}

\* The paths callers pass: "", "/", " ", "api", "/api/", "/ui", "//",
\* "/healthz", "/readiness/x" and "..".
MountPaths ==
  {<<>>, <<"/">>, <<" ">>, <<"a", "p", "i">>, <<"/", "a", "p", "i", "/">>,
   <<"/", "u", "i">>, <<"/", "/">>,
   <<"/", "h", "e", "a", "l", "t", "h", "z">>,
   <<"/", "r", "e", "a", "d", "i", "n", "e", "s", "s", "/", "x">>,
   <<".", ".">>}

RECURSIVE TrimLeft(_)
TrimLeft(p) == IF p # <<>> /\ Head(p) = " " THEN TrimLeft(Tail(p)) ELSE p

RECURSIVE TrimRight(_)
TrimRight(p) ==
  IF p # <<>> /\ p[Len(p)] = " " THEN TrimRight(SubSeq(p, 1, Len(p) - 1)) ELSE p

TrimSpace(p) == TrimRight(TrimLeft(p))
HasPrefix(p, pre) == Len(p) >= Len(pre) /\ SubSeq(p, 1, Len(pre)) = pre
TrimSuffix(p, c) ==
  IF p # <<>> /\ p[Len(p)] = c THEN SubSeq(p, 1, Len(p) - 1) ELSE p
Contains(p, sub) ==
  \E i \in 1..Len(p) :
    i + Len(sub) - 1 <= Len(p) /\ SubSeq(p, i, i + Len(sub) - 1) = sub

normalizePath(path) ==
  LET trimmed == TrimSpace(path)
  IN IF trimmed = <<>> THEN <<>>
     ELSE TrimSuffix(IF HasPrefix(trimmed, <<"/">>) THEN trimmed
                     ELSE <<"/">> \o trimmed,
                     "/")

reservedPaths ==
  {<<"/", "h", "e", "a", "l", "t", "h", "z">>,
   <<"/", "r", "e", "a", "d", "i", "n", "e", "s", "s">>}

isReservedPath(path) ==
  \E reserved \in reservedPaths :
    path = reserved \/ HasPrefix(path, reserved \o <<"/">>)

\* AddModuleOnPath, were it to skip the comparison with the mounted paths.
AddModuleOnPathNoConflictCheck(a, moduleName, path) ==
  LET normalizedPath == normalizePath(path)
  IN IF moduleName \in DOMAIN a.modules
       THEN [app |-> a, err |-> "already registered"]
     ELSE IF Contains(normalizedPath, <<".", ".">>)
       THEN [app |-> a, err |-> "path traversal not allowed"]
     ELSE IF isReservedPath(normalizedPath)
       THEN [app |-> a, err |-> "conflicts with reserved system endpoint"]
     ELSE IF normalizedPath = <<>> /\ a.rootModule # NoName
       THEN [app |-> a, err |-> "already mounted at root"]
     ELSE
       [app |-> [a EXCEPT !.rootModule = IF normalizedPath = <<>> THEN moduleName ELSE @,
                          !.modules = Upsert(@, moduleName, normalizedPath)],
        err |-> ""]

\* a.rootModule is assigned before the loop over a.modules looks for the
\* same path, so a call that fails there has already changed it.
AddModuleOnPath(a, moduleName, path) ==
  LET normalizedPath == normalizePath(path)
  IN IF moduleName \in DOMAIN a.modules
       THEN [app |-> a, err |-> "already registered"]
     ELSE IF Contains(normalizedPath, <<".", ".">>)
       THEN [app |-> a, err |-> "path traversal not allowed"]
     ELSE IF isReservedPath(normalizedPath)
       THEN [app |-> a, err |-> "conflicts with reserved system endpoint"]
     ELSE IF normalizedPath = <<>> /\ a.rootModule # NoName
       THEN [app |-> a, err |-> "already mounted at root"]
     ELSE
       LET a1 == [a EXCEPT !.rootModule =
                    IF normalizedPath = <<>> THEN moduleName ELSE @]
       IN IF \E name \in DOMAIN a1.modules : a1.modules[name] = normalizedPath
            THEN [app |-> a1, err |-> "path conflict"]
          ELSE [app |-> [a1 EXCEPT !.modules = Upsert(@, moduleName, normalizedPath)],
                err |-> ""]

AddModule(a, moduleName) == AddModuleOnPath(a, moduleName, moduleName)

\* A caller mounts a module before the app is started.
Added(moduleName, path, res) ==
  /\ app.pc = "idle"
  /\ app.started = "never"
  /\ app' = [res.app EXCEPT !.call = [name |-> moduleName, path |-> path,
                                      err |-> res.err, before |-> app.modules]]
  /\ UNCHANGED <<archive, inbox, last, deleted, run, graph>>

CallAddModuleOnPath(moduleName, path) ==
  Added(moduleName, path, AddModuleOnPath(app, moduleName, path))

CallAddModule(moduleName) ==
  Added(moduleName, moduleName, AddModule(app, moduleName))

(***************************************************************************)
(* App: Start, Stop and the readiness probe.  What a module's Init, the    *)
(* bus and the HTTP server do is the environment's choice.                 *)
(***************************************************************************)
Outcomes == {"ok", "disabled", "init failed", "subscribe failed"}

\* The modules the first pass of Start visits, were it to visit them all.
FirstPassAll(a) == DOMAIN a.modules

\* The modules the first pass of Start visits: those not mounted at root.
FirstPass(a) == {name \in DOMAIN a.modules : a.modules[name] # <<>>}

\* registerModule, were it to log a failed Init and carry on.
registerModuleIgnoresInit(a, name, outcome) ==
  CASE outcome = "disabled" -> [app |-> a, err |-> ""]
    [] outcome = "init failed" ->
         [app |-> [a EXCEPT !.failedInit = @ \cup {name}], err |-> ""]
    [] outcome = "subscribe failed" -> [app |-> a, err |-> "subscribe failed"]
    [] OTHER -> [app |-> [a EXCEPT !.registered = Append(@, name)], err |-> ""]

\* registerModule: a module disabled in the configuration is skipped; the
\* error of Init or of Subscribe is returned; otherwise the module is
\* initialised and its handlers are registered.
registerModule(a, name, outcome) ==
  CASE outcome = "disabled" -> [app |-> a, err |-> ""]
    [] outcome = "init failed" ->
         [app |-> [a EXCEPT !.failedInit = @ \cup {name}], err |-> "init failed"]
    [] outcome = "subscribe failed" -> [app |-> a, err |-> "subscribe failed"]
    [] OTHER -> [app |-> [a EXCEPT !.registered = Append(@, name)], err |-> ""]

\* Start returns err to its caller.
StartReturns(a, err) == [a EXCEPT !.pc = "idle", !.started = err]

AppFrame == UNCHANGED <<archive, inbox, last, deleted, run, graph>>

\* Start is called: startNats, then the first pass begins.
StartCalled(natsOk) ==
  /\ app.pc = "idle"
  /\ app.started = "never"
  /\ ~app.stopped
  /\ app' = IF natsOk THEN [app EXCEPT !.pc = "first", !.todo = FirstPass(app)]
            ELSE StartReturns(app, "nats failed")
  /\ AppFrame

\* First pass: the loop over a.modules, in the order the map yields.
RegisterNonRoot(name, outcome) ==
  /\ app.pc = "first"
  /\ name \in app.todo
  /\ LET r == registerModule(app, name, outcome)
     IN app' = IF r.err # "" THEN StartReturns(r.app, r.err)
               ELSE [r.app EXCEPT !.todo = @ \ {name}]
  /\ AppFrame

\* Second pass: the module a.rootModule names, if any.  a.modules has no
\* entry for a name that a failed AddModuleOnPath left in a.rootModule: the
\* mount is the zero value and Init is called on a nil Module.
RegisterRoot(outcome) ==
  /\ app.pc = "first"
  /\ app.todo = {}
  /\ app' = IF app.rootModule = NoName THEN [app EXCEPT !.pc = "http"]
            ELSE IF app.rootModule \notin DOMAIN app.modules /\ outcome # "disabled"
              THEN StartReturns(app, "panic")
            ELSE LET r == registerModule(app, app.rootModule, outcome)
                 IN IF r.err # "" THEN StartReturns(r.app, r.err)
                    ELSE [r.app EXCEPT !.pc = "http"]
  /\ AppFrame

\* The HTTP server is started; if it reports no error within 200 ms the app
\* is marked ready and Start returns nil.
ServeHTTP(up) ==
  /\ app.pc = "http"
  /\ app' = IF up THEN [StartReturns(app, "ok") EXCEPT !.ready = TRUE]
            ELSE StartReturns(app, "http failed")
  /\ AppFrame

\* Stop is called: it stops the HTTP server and the bus first.
StopCalled ==
  /\ app.pc = "idle"
  /\ ~app.stopped
  /\ app' = [app EXCEPT !.pc = "stopping"]
  /\ AppFrame

\* Stop marks the app as not ready and returns.
StopReturns ==
  /\ app.pc = "stopping"
  /\ app' = [app EXCEPT !.ready = FALSE, !.pc = "idle", !.stopped = TRUE]
  /\ AppFrame

readinessHandler(a) == IF a.ready THEN "200 READY" ELSE "503 NOT READY"

NextApp ==
  \/ \E name \in ModuleNames, path \in MountPaths : CallAddModuleOnPath(name, path)
  \/ \E name \in ModuleNames : CallAddModule(name)
  \/ \E natsOk \in BOOLEAN : StartCalled(natsOk)
  \/ \E name \in ModuleNames, outcome \in Outcomes : RegisterNonRoot(name, outcome)
  \/ \E outcome \in Outcomes : RegisterRoot(outcome)
  \/ \E up \in BOOLEAN : ServeHTTP(up)
  \/ StopCalled
  \/ StopReturns

SpecApp == Init /\ [][NextApp]_vars
(***************************************************************************)
(* Properties of the command handler.                                      *)
(***************************************************************************)
\* The domain event type that answers a command type.
Counterpart(t) ==
  CASE t = "CreateNode" -> "NodeCreated"
    [] t = "UpdateNode" -> "NodeUpdated"
    [] t = "DeleteNode" -> "NodeDeleted"
    [] t = "CreateEdge" -> "EdgeCreated"
    [] t = "UpdateEdge" -> "EdgeUpdated"
    [] t = "DeleteEdge" -> "EdgeDeleted"
    [] t = "CreateThread" -> "ThreadCreated"
    [] t = "UpdateThread" -> "ThreadUpdated"
    [] t = "DeleteThread" -> "ThreadDeleted"
    [] OTHER -> "none"

\* The repo module has just handled a decodable envelope.
RepoRan == last.who = "repo" /\ last.cmd # Garbage

\* C1: every command the Repository accepts (HandleInputEvent returns an
\* event, or the Archive was changed by the command) is followed by exactly
\* one publication, of the counterpart type, on the repository's output
\* subject; a rejected command is followed by none.
C1_AcceptedCommandPublishesOneEvent ==
  [][(last'.who = "repo" /\ last'.cmd # Garbage) =>
       IF last'.err = "" \/ archive' # archive
         THEN /\ Len(last'.published) = 1
              /\ last'.published[1].subject = RepoOutSubject(RepoId)
              /\ last'.published[1].msg.type = Counterpart(last'.cmd.type)
         ELSE last'.published = <<>>]_vars

\* C2: a message whose type is none of the nine command types (a domain
\* event type and the empty string included) is answered with an
\* UnknownEventType error, no event, and no Archive call.
C2_UnknownTypeRejected ==
  (RepoRan /\ last.cmd.type \notin CommandTypes) =>
    /\ last.err = "UnknownEventType"
    /\ last.out = <<>>
    /\ last.calls = <<>>
    /\ last.published = <<>>

C2_Witness ==
  /\ RepoRan
  /\ last.cmd.type = "NodeDeleted"
  /\ last.err = "UnknownEventType"
  /\ archive.nodes # EmptyArchive.nodes

\* C3: one HandleInputEvent makes at most one Archive call, and exactly one
\* when it returns an event.
C3_AtMostOneArchiveCall ==
  RepoRan =>
    /\ Len(last.calls) <= 1
    /\ last.out # <<>> => Len(last.calls) = 1

C3_Witness ==
  /\ RepoRan
  /\ last.cmd.type = "UpdateNode"
  /\ last.out # <<>>
  /\ Len(last.calls) = 1

SaveOps == {"SaveNode", "SaveEdge", "SaveThread"}

DeleteOps == {"DeleteNode", "DeleteEdge", "DeleteThread"}

\* C4: an undecodable payload gives an Unmarshal error and no Archive call;
\* a failing Archive save gives a Save error; a failing Archive delete gives
\* a Delete error; with any error no event is returned or published.
C4_TypedErrorsReturned ==
  (RepoRan /\ last.cmd.type \in CommandTypes) =>
    /\ Undecodable(last.cmd.payload) =>
         last.err = "Unmarshal" /\ last.calls = <<>>
    /\ \A i \in 1..Len(last.calls) :
         /\ (last.calls[i].op \in SaveOps /\ last.calls[i].err # "") =>
              last.err = "Save"
         /\ (last.calls[i].op \in DeleteOps /\ last.calls[i].err # "") =>
              last.err = "Delete"
    /\ last.err # "" => last.out = <<>> /\ last.published = <<>>

C4_Witness ==
  /\ RepoRan
  /\ last.cmd.type = "CreateNode"
  /\ last.fault = "db"
  /\ last.calls # <<>>
  /\ last.calls[1].err # ""
  /\ last.err = "Save"

\* The outgoing payload carries what the Archive call was given.
Carries(ev, call) ==
  CASE ev.type = "NodeCreated" ->
         call.op = "SaveNode" /\ ev.payload.node = call.arg
    [] ev.type = "NodeUpdated" ->
         call.op = "SaveNode" /\ ev.payload.updated_node = call.arg
    [] ev.type = "NodeDeleted" ->
         call.op = "DeleteNode" /\ ev.payload.node_id = call.arg
    [] ev.type = "EdgeCreated" ->
         call.op = "SaveEdge" /\ ev.payload.edge = call.arg
    [] ev.type = "EdgeUpdated" ->
         /\ call.op = "SaveEdge"
         /\ ev.payload.updated_edge = call.arg
         /\ ev.payload.edge_id = call.arg[1].id
    [] ev.type = "EdgeDeleted" ->
         call.op = "DeleteEdge" /\ ev.payload.edge_id = call.arg
    [] ev.type = "ThreadCreated" ->
         call.op = "SaveThread" /\ ev.payload.thread = call.arg
    [] ev.type = "ThreadUpdated" ->
         call.op = "SaveThread" /\ ev.payload.updated_thread = call.arg
    [] ev.type = "ThreadDeleted" ->
         call.op = "DeleteThread" /\ ev.payload.thread_id = call.arg
    [] OTHER -> FALSE

Cascaded ==
  last.who = "listener" /\ last.calls # <<>> /\ last.err = ""

\* C7: when the listener has processed a NodeDeleted event for node n (its
\* delete returning no error), no edge has source n or target n, and every
\* edge that had neither is still there, unchanged, and no edge was added.
C7_CascadeRemovesIncidentEdgesOnly ==
  Cascaded =>
    LET n == last.calls[1].arg
        others == {e \in DOMAIN last.before.edges :
                     last.before.edges[e].source # n /\ last.before.edges[e].target # n}
    IN /\ \A e \in DOMAIN archive.edges :
            archive.edges[e].source # n /\ archive.edges[e].target # n
       /\ DOMAIN archive.edges = others
       /\ \A e \in others : archive.edges[e] = last.before.edges[e]

C7_Witness ==
  /\ Cascaded
  /\ last.calls[1].arg = "n1"
  /\ DOMAIN last.before.edges = {"e1", "e2"}
  /\ DOMAIN archive.edges = {"e2"}

\* C8: every NodeDeleted fact the repo module publishes goes out on a
\* subject the listener's subscription matches, and so is delivered to the
\* listener.
C8_NodeDeletedReachesListener ==
  (RepoRan /\ last.published # <<>>
     /\ last.published[1].msg.type = "NodeDeleted") =>
    /\ Matches(ListenerSubject, last.published[1].subject)
    /\ inbox # <<>>
    /\ inbox[Len(inbox)] = last.published[1].msg

\* C9: once every command and every delivered message has been processed
\* (no handler is running, nothing is waiting for the listener), no stored
\* edge has for source or target a node that was deleted and not re-created.
C9_NoEdgeToDeletedNode ==
  (last = Idle /\ inbox = <<>>) =>
    \A e \in DOMAIN archive.edges :
      archive.edges[e].source \notin deleted /\ archive.edges[e].target \notin deleted

(***************************************************************************)
(* Properties of the thread store.                                         *)
(***************************************************************************)
\* C10: after SaveThread was called with a thread (the CreateThread command
\* hands its thread to SaveThread), the save succeeded and GetThread of the
\* root id returns the same root node, body included, and the same edges.
C10_SavedThreadReadBack ==
  (/\ RepoRan
   /\ last.cmd.type = "CreateThread"
   /\ "thread" \in DOMAIN last.cmd.payload) =>
    LET t == last.cmd.payload.thread
        g == GetThread(archive, t.node.id)
    IN /\ last.err = ""
       /\ g.err = ""
       /\ g.val[1].node = t.node
       /\ g.val[1].edges = {t.edges[i] : i \in 1..Len(t.edges)}

\* The archive method `op` has just been called directly.
ArchiveRan(op) ==
  last.who = "archive" /\ last.calls[1].op = op

\* The errors SaveThread returns after its transaction was committed.
PostCommit(err) ==
  err \in {"", "failed to read node content",
           "failed to write node to thread directory"}

\* The nodes a thread refers to: the root and each edge's source and target.
Referenced(t) ==
  {t.node.id}
  \cup UNION {{t.edges[i].source, t.edges[i].target} : i \in 1..Len(t.edges)}

\* C11: once SaveThread has committed its transaction (it then completed, or
\* stopped during the relocation of the blobs), reading any stored node the
\* thread refers to succeeds and returns the body saved for it: the thread's
\* own body for the root, the body it had before for every other node.
C11_ReferencedNodesReadable ==
  (ArchiveRan("SaveThread") /\ PostCommit(last.err)) =>
    LET t == last.calls[1].arg[1]
    IN \A n \in Referenced(t) \cap DOMAIN archive.nodes :
         LET g == GetNode(archive, n)
             was == GetNode(last.before, n)
         IN /\ g.err = ""
            /\ n = t.node.id => g.val[1].body = t.node.body
            /\ (n # t.node.id /\ was.err = "") => g.val[1].body = was.val[1].body

C13_SaveThenGetReturnsInput ==
  (last.who = "archive" /\ last.err = "") =>
    LET op == last.calls[1].op
        arg == last.calls[1].arg
    IN /\ op = "SaveNode" => GetNode(archive, arg[1].id) = Found(arg[1])
       /\ op = "SaveEdge" => GetEdge(archive, arg[1].id) = Found(arg[1])
       /\ op = "SaveAnnotation" =>
            GetAnnotation(archive, arg[1].node.id) = Found(arg[1])

UnsavedNode == "n3"
UnsavedEdge == "e3"
UnsavedThread == "n2"
UnsavedAnnotation == "n1"

\* C15: for each kind, Get on an id that has no row (so also on an id that
\* was never saved) returns a NotFound error carrying the kind and the id,
\* and no value.
C15_GetUnsavedIsNotFound ==
  /\ \A id \in NodeIds \ DOMAIN archive.nodes :
       GetNode(archive, id) = NotFound("node", id)
  /\ \A id \in (EdgeIds \cup {UnsavedEdge}) \ DOMAIN archive.edges :
       GetEdge(archive, id) = NotFound("edge", id)
  /\ \A id \in NodeIds \ archive.threads :
       GetThread(archive, id) = NotFound("thread", id)
  /\ \A id \in NodeIds \ DOMAIN archive.annotations :
       GetAnnotation(archive, id) = NotFound("annotation", id)
  /\ UnsavedNode \notin DOMAIN archive.nodes
  /\ UnsavedEdge \notin DOMAIN archive.edges
  /\ UnsavedThread \notin archive.threads
  /\ UnsavedAnnotation \notin DOMAIN archive.annotations

\* Every table holds a row and the unsaved ids are still not found, the
\* thread and annotation ids being ids of stored nodes.
C15_Witness ==
  /\ {"n1", "n2"} \subseteq DOMAIN archive.nodes
  /\ DOMAIN archive.edges # {}
  /\ archive.threads # {}
  /\ DOMAIN archive.annotations # {}
  /\ GetNode(archive, UnsavedNode).err = "NotFound"
  /\ GetEdge(archive, UnsavedEdge).err = "NotFound"
  /\ GetThread(archive, UnsavedThread).err = "NotFound"
  /\ GetAnnotation(archive, UnsavedAnnotation).err = "NotFound"

\* The id a Delete of the archive was called with, and whether nothing of
\* that kind was stored under it when the call started.
DeletedId == last.calls[1].arg
AbsentBefore(op) ==
  LET b == last.before
      id == DeletedId
  IN CASE op = "DeleteNode" -> id \notin DOMAIN b.nodes /\ ~Exists(b.fs, id)
       [] op = "DeleteEdge" -> id \notin DOMAIN b.edges
       [] op = "DeleteThread" ->
            /\ id \notin b.threads
            /\ JoinsOf(b.thread_edges, id) = {}
            /\ id \notin DOMAIN b.nodes
            /\ ~Exists(b.fs, id)
       [] op = "DeleteAnnotation" -> id \notin DOMAIN b.annotations

\* C16: a Delete of a node, edge, thread or annotation whose id is already
\* absent returns no error and leaves the archive as it was.
C16_DeleteAbsentIsNoOp ==
  \A op \in {"DeleteNode", "DeleteEdge", "DeleteThread", "DeleteAnnotation"} :
    (ArchiveRan(op) /\ AbsentBefore(op)) =>
      /\ last.err = ""
      /\ archive = last.before

\* C17: DeleteNode of a stored node returns no error and GetNode of its id
\* is NotFound afterwards, whatever else the archive holds: the node may be
\* the root of a stored thread, an endpoint of stored edges, or annotated.
C17_DeleteNodeThenNotFound ==
  (ArchiveRan("DeleteNode") /\ DeletedId \in DOMAIN last.before.nodes) =>
    /\ last.err = ""
    /\ GetNode(archive, DeletedId) = NotFound("node", DeletedId)

\* The deleted node was the root of a stored thread and an endpoint of a
\* stored edge.
C17_Witness ==
  /\ ArchiveRan("DeleteNode")
  /\ DeletedId \in DOMAIN last.before.nodes
  /\ DeletedId \in last.before.threads
  /\ \E e \in DOMAIN last.before.edges : Touches(last.before.edges[e], DeletedId)
  /\ GetNode(archive, DeletedId).err = "NotFound"

\* C18: after DeleteThread of a stored thread the thread's row and its join
\* rows are gone (GetThread is NotFound), nothing is left at the path of its
\* directory, and its root node is deleted (GetNode is NotFound).
C18_DeleteThreadRemovesEverything ==
  (ArchiveRan("DeleteThread") /\ DeletedId \in last.before.threads) =>
    /\ last.err = ""
    /\ GetThread(archive, DeletedId) = NotFound("thread", DeletedId)
    /\ DeletedId \notin archive.threads
    /\ JoinsOf(archive.thread_edges, DeletedId) = {}
    /\ ~Exists(archive.fs, DeletedId)
    /\ GetNode(archive, DeletedId) = NotFound("node", DeletedId)

\* The thread had its row, its directory and its root node's row.
C18_Witness ==
  /\ ArchiveRan("DeleteThread")
  /\ DeletedId \in last.before.threads
  /\ IsDir(last.before.fs, DeletedId)
  /\ DeletedId \in DOMAIN last.before.nodes
  /\ GetThread(archive, DeletedId).err = "NotFound"
  /\ GetNode(archive, DeletedId).err = "NotFound"

\* C20: when DeleteEdgesByNode fails while the listener handles a NodeDeleted
\* event, the handler returns nothing and publishes nothing, the event leaves
\* the queue and is not put back, and every edge is still stored.
C20_FailedCascadeIsDropped ==
  [][(/\ last = Idle
      /\ last'.who = "listener"
      /\ last'.calls # <<>>
      /\ last'.err # "")
     => /\ inbox' = Tail(inbox)
        /\ archive' = archive
        /\ last'.out = <<>>
        /\ last'.published = <<>>
        /\ last'.pubFailed = FALSE]_vars

\* The listener's edge deletion failed for a node that a stored edge touches;
\* the edge is still stored and the queue is empty.
C20_Witness ==
  /\ last.who = "listener"
  /\ last.calls # <<>>
  /\ last.err # ""
  /\ \E e \in DOMAIN last.before.edges :
       /\ Touches(last.before.edges[e], last.calls[1].arg)
       /\ e \in DOMAIN archive.edges
  /\ inbox = <<>>

\* The call of worker w made alone on archive ar.
Alone(ar, c) ==
  IF c.op = "SaveNode" THEN SaveNode(ar, c.arg, "none")
  ELSE SaveThread(ar, c.arg, "none", AnyOrder)

\* The two calls made one after the other, `first` first, leave the archive
\* and return the errors that the concurrent run did.
SameAsSerial(first, second) ==
  LET s1 == Alone(run.before, run.proc[first])
      s2 == Alone(s1.ar, run.proc[second])
  IN /\ archive = s2.ar
     /\ run.proc[first].err = s1.err
     /\ run.proc[second].err = s2.err

\* C19: when two calls for different entities ran concurrently and both have
\* returned, what they returned and the archive they left are those of the
\* two calls made one after the other in one of the two orders.
C19_ConcurrentEqualsSerial ==
  BothReturned => SameAsSerial("r1", "r2") \/ SameAsSerial("r2", "r1")

\* C21: the listener publishes nothing.  Handling a message, NodeDeleted or
\* not, takes that message off the queue and delivers none, returns no event,
\* and changes no part of the archive other than the edge table.
C21_ListenerEmitsNothing ==
  [][(last = Idle /\ last'.who = "listener")
     => /\ last'.published = <<>>
        /\ last'.out = <<>>
        /\ last'.pubFailed = FALSE
        /\ inbox' = Tail(inbox)
        /\ [archive' EXCEPT !.edges = archive.edges] = archive
        /\ DOMAIN archive'.edges \subseteq DOMAIN archive.edges]_vars

\* The listener has handled a NodeDeleted event and removed an edge.
C21_Witness ==
  /\ last.who = "listener"
  /\ last.cmd # Garbage
  /\ last.cmd.type = "NodeDeleted"
  /\ last.err = ""
  /\ DOMAIN archive.edges # DOMAIN last.before.edges
  /\ last.published = <<>>

\* Whether the call that ran performed a step that the failure in effect
\* makes fail: any call runs a SQL statement first; a file operation is run
\* by SaveNode for a non-empty body, by DeleteNode when something is at the
\* blob's path, by SaveThread and DeleteThread always; GetNode and GetThread
\* call os.Stat once the row is found and os.ReadFile when the blob exists.
Hits ==
  LET op == last.calls[1].op
      arg == last.calls[1].arg
      b == last.before
  IN CASE last.fault = "db" -> TRUE
       [] last.fault = "fs" ->
            CASE op = "SaveNode" -> arg[1].body # ""
              [] op = "DeleteNode" -> Exists(b.fs, arg)
              [] op \in {"SaveThread", "DeleteThread"} -> TRUE
              [] OTHER -> FALSE
       [] last.fault = "stat" ->
            CASE op = "GetNode" -> arg \in DOMAIN b.nodes
              [] op = "GetThread" -> arg \in b.threads /\ arg \in DOMAIN b.nodes
              [] OTHER -> FALSE
       [] last.fault = "read" ->
            /\ op \in {"GetNode", "GetThread"}
            /\ arg \in DOMAIN b.nodes
            /\ op = "GetThread" => arg \in b.threads
            /\ Exists(b.fs, arg)
       [] OTHER -> FALSE

\* C22: a call of the archive that meets a database or filesystem failure
\* returns an error.
C22_ErrorsPropagated ==
  (last.who = "archive" /\ Hits) => last.err # ""

\* C23: whatever CreateNode, UpdateNode or thread command is handled, every
\* stored node stays stored under its id and keeps the kind it had.
C23_NodeIdAndKindStable ==
  [][\A id \in DOMAIN archive.nodes :
       /\ id \in DOMAIN archive'.nodes
       /\ archive'.nodes[id].type = archive.nodes[id].type]_vars

\* C24: when HandleInputEvent accepts a CreateNode command whose node has no
\* id, the NodeCreated event it returns carries a node with an id that is
\* set and was not stored before, and with the command's body; GetNode of
\* that id returns that node.  (Two such commands then store two nodes.)
C24_CreateNodeAssignsFreshId ==
  [][(/\ last = Idle
      /\ last'.who = "repo"
      /\ last'.cmd.type = "CreateNode"
      /\ last'.err = ""
      /\ PtrField(last'.cmd.payload, "node")[1].id = NilID)
     => LET sent == PtrField(last'.cmd.payload, "node")[1]
            made == last'.out[1].payload.node[1]
        IN /\ last'.out[1].type = "NodeCreated"
           /\ made.id # NilID
           /\ made.id \notin DOMAIN archive.nodes
           /\ made.body = sent.body
           /\ GetNode(archive', made.id) = Found(made)]_vars

(***************************************************************************)
(* core.Graph and core.EventLog.  graph.nodes and graph.edges are the maps *)
(* of the Graph, graph.log the Events of the EventLog that every returned  *)
(* event is appended to, graph.err the error of the latest operation.      *)
(***************************************************************************)
MaxLog == 5

GraphNodes == NodeVals
GraphEdges == {Edge("e1", s, t, WholeSecond) : s \in SavedIds, t \in SavedIds}

NewNodeCreatedEvent(node) == [type |-> "NodeCreated", payload |-> [node |-> node]]

NewNodeUpdatedEvent(oldNode, newNode) ==
  [type |-> "NodeUpdated", payload |-> [old_node |-> oldNode, new_node |-> newNode]]

NewNodeDeletedEvent(node) == [type |-> "NodeDeleted", payload |-> [node |-> node]]

NewEdgeCreatedEvent(edge) == [type |-> "EdgeCreated", payload |-> [edge |-> edge]]

NewEdgeUpdatedEvent(oldEdge, newEdge) ==
  [type |-> "EdgeUpdated", payload |-> [old_edge |-> oldEdge, new_edge |-> newEdge]]

NewEdgeDeletedEvent(edge) == [type |-> "EdgeDeleted", payload |-> [edge |-> edge]]

\* The event log with event appended.
AddEvent(g, event) == [g EXCEPT !.log = Append(@, event), !.err = ""]

Refused(g, err) == [g EXCEPT !.err = err]

GraphAddNode(g, node) ==
  IF node.id \in DOMAIN g.nodes THEN Refused(g, "already exists")
  ELSE AddEvent([g EXCEPT !.nodes = Upsert(@, node.id, node)],
                NewNodeCreatedEvent(node))

GraphUpdateNode(g, node) ==
  IF node.id \notin DOMAIN g.nodes THEN Refused(g, "does not exist")
  ELSE AddEvent([g EXCEPT !.nodes = Upsert(@, node.id, node)],
                NewNodeUpdatedEvent(g.nodes[node.id], node))

GraphDeleteNode(g, nodeID) ==
  IF nodeID \notin DOMAIN g.nodes THEN Refused(g, "does not exist")
  ELSE AddEvent([g EXCEPT !.nodes = Remove(@, nodeID)],
                NewNodeDeletedEvent(g.nodes[nodeID]))

GraphAddEdge(g, edge) ==
  IF edge.id \in DOMAIN g.edges THEN Refused(g, "already exists")
  ELSE AddEvent([g EXCEPT !.edges = Upsert(@, edge.id, edge)],
                NewEdgeCreatedEvent(edge))

GraphUpdateEdge(g, edge) ==
  IF edge.id \notin DOMAIN g.edges THEN Refused(g, "does not exist")
  ELSE AddEvent([g EXCEPT !.edges = Upsert(@, edge.id, edge)],
                NewEdgeUpdatedEvent(g.edges[edge.id], edge))

GraphDeleteEdge(g, edgeID) ==
  IF edgeID \notin DOMAIN g.edges THEN Refused(g, "does not exist")
  ELSE AddEvent([g EXCEPT !.edges = Remove(@, edgeID)],
                NewEdgeDeletedEvent(g.edges[edgeID]))

\* One turn of the loop of Replay, were an update to restore the old state.
ReplayEventRestoresOld(g, event) ==
  CASE event.type = "NodeCreated" ->
         [g EXCEPT !.nodes = Upsert(@, event.payload.node.id, event.payload.node)]
    [] event.type = "NodeUpdated" ->
         [g EXCEPT !.nodes = Upsert(@, event.payload.old_node.id, event.payload.old_node)]
    [] event.type = "NodeDeleted" ->
         [g EXCEPT !.nodes = Remove(@, event.payload.node.id)]
    [] event.type = "EdgeCreated" ->
         [g EXCEPT !.edges = Upsert(@, event.payload.edge.id, event.payload.edge)]
    [] event.type = "EdgeUpdated" ->
         [g EXCEPT !.edges = Upsert(@, event.payload.old_edge.id, event.payload.old_edge)]
    [] event.type = "EdgeDeleted" ->
         [g EXCEPT !.edges = Remove(@, event.payload.edge.id)]
    [] OTHER -> g

\* One turn of the loop of Replay.
ReplayEvent(g, event) ==
  CASE event.type = "NodeCreated" ->
         [g EXCEPT !.nodes = Upsert(@, event.payload.node.id, event.payload.node)]
    [] event.type = "NodeUpdated" ->
         [g EXCEPT !.nodes = Upsert(@, event.payload.new_node.id, event.payload.new_node)]
    [] event.type = "NodeDeleted" ->
         [g EXCEPT !.nodes = Remove(@, event.payload.node.id)]
    [] event.type = "EdgeCreated" ->
         [g EXCEPT !.edges = Upsert(@, event.payload.edge.id, event.payload.edge)]
    [] event.type = "EdgeUpdated" ->
         [g EXCEPT !.edges = Upsert(@, event.payload.new_edge.id, event.payload.new_edge)]
    [] event.type = "EdgeDeleted" ->
         [g EXCEPT !.edges = Remove(@, event.payload.edge.id)]
    [] OTHER -> g

RECURSIVE ReplayFrom(_, _)
ReplayFrom(g, events) ==
  IF events = <<>> THEN g
  ELSE ReplayFrom(ReplayEvent(g, Head(events)), Tail(events))

\* EventLog.Replay: a new Graph with every event of the log applied in order.
Replay(events) == ReplayFrom([nodes |-> <<>>, edges |-> <<>>], events)

\* A Graph operation is called and its event, if any, is logged.
GraphCalled(g) ==
  /\ Len(graph.log) < MaxLog
  /\ graph' = g
  /\ UNCHANGED <<archive, inbox, last, deleted, run, app>>

CallGraphAddNode(node) == GraphCalled(GraphAddNode(graph, node))

CallGraphUpdateNode(node) == GraphCalled(GraphUpdateNode(graph, node))

CallGraphDeleteNode(nodeID) == GraphCalled(GraphDeleteNode(graph, nodeID))

CallGraphAddEdge(edge) == GraphCalled(GraphAddEdge(graph, edge))

CallGraphUpdateEdge(edge) == GraphCalled(GraphUpdateEdge(graph, edge))

CallGraphDeleteEdge(edgeID) == GraphCalled(GraphDeleteEdge(graph, edgeID))

NextGraph ==
  \/ \E node \in GraphNodes : CallGraphAddNode(node)
  \/ \E node \in GraphNodes : CallGraphUpdateNode(node)
  \/ \E nodeID \in SavedIds : CallGraphDeleteNode(nodeID)
  \/ \E edge \in GraphEdges : CallGraphAddEdge(edge)
  \/ \E edge \in GraphEdges : CallGraphUpdateEdge(edge)
  \/ \E edgeID \in {"e1"} : CallGraphDeleteEdge(edgeID)

SpecGraph == Init /\ [][NextGraph]_vars

\* C25: no two registered modules have the same normalised mount path (so at
\* most one is mounted at root), and a call of AddModule or AddModuleOnPath
\* that returns an error registers nothing.
C25_MountPathsUnique ==
  /\ \A m1, m2 \in DOMAIN app.modules :
       app.modules[m1] = app.modules[m2] => m1 = m2
  /\ app.call.err # "" => app.modules = app.call.before
  /\ app.call.err = "" /\ app.call.name \in DOMAIN app.modules =>
       /\ app.modules[app.call.name] = normalizePath(app.call.path)
       /\ \A m \in DOMAIN app.call.before :
            app.call.before[m] # normalizePath(app.call.path)

\* A module is mounted at root and a call that would mount a second one
\* there, under another spelling of the root path, was refused.
C25_Witness ==
  /\ \E m \in DOMAIN app.modules : app.modules[m] = <<>>
  /\ app.call.err # ""
  /\ app.call.path # <<>>
  /\ normalizePath(app.call.path) = <<>>
  /\ app.call.name \notin DOMAIN app.modules
  /\ Cardinality(DOMAIN app.modules) = 2

\* C26: during Start the module mounted at root is initialised and
\* registered only after every non-root module has been visited, whatever
\* the order in which the modules were added.
C26_RootRegisteredLast ==
  \A i \in 1..Len(app.registered) :
    app.modules[app.registered[i]] = <<>> =>
      /\ i = Len(app.registered)
      /\ app.todo = {}
      /\ \A name \in FirstPass(app) :
           \/ \E j \in 1..(i - 1) : app.registered[j] = name
           \/ name \notin app.failedInit

\* The root module was added before a non-root one, and Start registered
\* the non-root one first.
C26_Witness ==
  /\ Len(app.registered) = 2
  /\ app.modules[app.registered[1]] # <<>>
  /\ app.modules[app.registered[2]] = <<>>
  /\ app.registered[2] \in DOMAIN app.call.before
  /\ app.registered[1] \notin DOMAIN app.call.before
  /\ app.call.err = ""

\* C27: the readiness probe answers 200 READY only after Start has returned
\* successfully and before Stop is called; before Start, after a failed
\* Start and after Stop it answers 503 NOT READY.
C27_ReadyOnlyBetweenStartAndStop ==
  /\ readinessHandler(app) = "200 READY" =>
       /\ app.started = "ok"
       /\ app.pc = "idle"
       /\ ~app.stopped
  /\ app.started \notin {"ok"} \/ app.stopped =>
       (app.pc = "idle" => readinessHandler(app) = "503 NOT READY")

\* C28: if Init of an enabled module returns an error, Start returns that
\* error and the app is not marked ready.
C28_InitErrorFailsStart ==
  app.failedInit # {} =>
    /\ app.started = "init failed"
    /\ app.pc # "first"
    /\ ~app.ready
    /\ readinessHandler(app) = "503 NOT READY"

\* Start registered one module, then Init of the root module failed.
C28_Witness ==
  /\ app.failedInit = {app.rootModule}
  /\ app.rootModule \in DOMAIN app.modules
  /\ Len(app.registered) = 1
  /\ app.started = "init failed"

\* C29: replaying the log of the events that the successful Graph operations
\* returned, in order, gives a graph with exactly the nodes and edges of the
\* graph the operations were applied to.
C29_ReplayRebuildsGraph ==
  LET replayed == Replay(graph.log)
  IN /\ DOMAIN replayed.nodes = DOMAIN graph.nodes
     /\ \A id \in DOMAIN graph.nodes : replayed.nodes[id] = graph.nodes[id]
     /\ DOMAIN replayed.edges = DOMAIN graph.edges
     /\ \A id \in DOMAIN graph.edges : replayed.edges[id] = graph.edges[id]

\* The log holds an update and a deletion of nodes, and a node and an edge
\* are left.
C29_Witness ==
  /\ \E i \in DOMAIN graph.log : graph.log[i].type = "NodeUpdated"
  /\ \E i \in DOMAIN graph.log : graph.log[i].type = "NodeDeleted"
  /\ DOMAIN graph.nodes # {}
  /\ DOMAIN graph.edges # {}

\* C30: when HandleInputEvent returns an error, the archive is the same as
\* before the call.
C30_FailedCommandLeavesArchive ==
  [][(last = Idle /\ last'.who = "repo" /\ last'.cmd # Garbage /\ last'.err # "")
       => archive' = archive]_vars

(***************************************************************************)
(* SpecThreads: threads are saved while edges are saved, deleted one by    *)
(* one (DeleteEdge) and deleted by node (DeleteEdgesByNode, the cascade's  *)
(* only write).  No failure is injected.                                   *)
(***************************************************************************)
CallDeleteEdgesByNode(id) ==
  Called("DeleteEdgesByNode", [node_id |-> id], id,
         DeleteEdgesByNode(archive, id, "none"))

NextThreads ==
  \/ \E v \in ArchiveNodes : CallSaveNode(v)
  \/ \E e \in ArchiveEdges : CallSaveEdge(e)
  \/ \E t \in ArchiveThreads, order \in Orders : CallSaveThread(t, order)
  \/ \E id \in EdgeIds : CallDeleteEdge(id)
  \/ \E id \in NodeIds : CallDeleteEdgesByNode(id)
  \/ Return

SpecThreads == Init /\ [][NextThreads]_vars

(***************************************************************************)
(* SpecSaves: SaveNode called again and again, on two ids, with either     *)
(* body and either type, creation times in whole seconds.  Nothing fails.  *)
(***************************************************************************)
SavedNodes == {OfKind(v, k) : v \in NodeVals, k \in NodeKinds}

NextSaves ==
  \/ \E v \in SavedNodes : CallSaveNode(v)
  \/ Return

SpecSaves == Init /\ [][NextSaves]_vars

(***************************************************************************)
(* SpecSameNode: two repositories handle a write of the same node at the   *)
(* same time, each a SaveNode with a non-empty body.  The INSERT and the   *)
(* WriteFile of a call are two statements; each is taken as atomic.        *)
(***************************************************************************)
SameNodeWrites ==
  {OfKind(Node("n1", b, WholeSecond), k) : b \in {"b1", "b2"}, k \in NodeKinds}

SameNodeCalls == {Proc("SaveNode", <<v>>, "node.exec", 0, "") : v \in SameNodeWrites}

StartSame(c1, c2) ==
  /\ last = Idle
  /\ run = NoRun
  /\ c1 # c2
  /\ run' = [run EXCEPT !.before = archive,
                        !.proc = [w \in Workers |-> IF w = "r1" THEN c1 ELSE c2]]
  /\ UNCHANGED <<archive, inbox, last, deleted, app, graph>>

NextSameNode ==
  \/ \E c1, c2 \in SameNodeCalls : StartSame(c1, c2)
  \/ \E w \in Workers : NodeExec(w)
  \/ \E w \in Workers : NodeWrite(w)
  \/ Finish

SpecSameNode == Init /\ [][NextSameNode]_vars

(***************************************************************************)
(* SpecMain: main wires the repo module to the archive.  app.wiring is     *)
(* "new" until Start registers the repo module, "subscribed" once its Init *)
(* has made the repository (with a nil archive) and its command subject is *)
(* subscribed, "wired" once main has called SetArchive, "crashed" after a  *)
(* panic.  Commands arrive whenever the subscription is active.            *)
(***************************************************************************)
\* Start registers the repo module: Init, then Subscribe on repo.<id>.in.
RepoSubscribed ==
  /\ last = Idle
  /\ app.wiring = "new"
  /\ app' = [app EXCEPT !.wiring = "subscribed"]
  /\ UNCHANGED <<archive, inbox, last, deleted, run, graph>>

\* main, after Start has returned: repoModule.SetArchive(GetArchive()).
SetArchive ==
  /\ last = Idle
  /\ app.wiring = "subscribed"
  /\ app' = [app EXCEPT !.wiring = "wired"]
  /\ UNCHANGED <<archive, inbox, last, deleted, run, graph>>

\* A command is handled by a repository that has its archive.
HandleWired(msg) ==
  /\ app.wiring = "wired"
  /\ RepoHandle(msg, "none", AnyOrder, TRUE)
  /\ UNCHANGED deleted

\* A command is handled by the repository Init made: r.archive is the nil
\* interface, and the first call on it panics in the subscription's
\* goroutine; a command that is rejected before any Archive call returns
\* its error.
HandleUnwired(msg) ==
  /\ app.wiring = "subscribed"
  /\ last = Idle
  /\ LET r == IF msg = Garbage THEN Rejected(archive, "Envelope", <<>>)
              ELSE HandleInputEvent(archive, msg, "none", AnyOrder)
         panics == r.calls # <<>>
     IN /\ last' = Step("repo", msg, "none", <<>>,
                        IF panics THEN "nil pointer dereference" ELSE r.err,
                        <<>>, <<>>, FALSE, NoBefore)
        /\ app' = IF panics THEN [app EXCEPT !.wiring = "crashed"] ELSE app
  /\ UNCHANGED <<archive, inbox, deleted, run, graph>>

NextMain ==
  \/ RepoSubscribed
  \/ SetArchive
  \/ \E msg \in NodeCommands \cup OtherMessages : HandleWired(msg)
  \/ \E msg \in NodeCommands \cup OtherMessages : HandleUnwired(msg)
  \/ Return

SpecMain == Init /\ [][NextMain]_vars

\* C31: when HandleInputEvent accepts an UpdateNode command with payload
\* {id, updatedNode}, GetNode(id) returns updatedNode afterwards, and no node
\* stored under another id has been created or changed.
C31_UpdateNodeWritesItsId ==
  [][(/\ last = Idle
      /\ last'.who = "repo"
      /\ last'.cmd.type = "UpdateNode"
      /\ last'.err = "")
     => LET id == IdField(last'.cmd.payload, "node_id")
            updated == PtrField(last'.cmd.payload, "updated_node")[1]
        IN /\ GetNode(archive', id) = Found(updated)
           /\ \A other \in NodeIds \ {id} :
                GetNode(archive', other) = GetNode(archive, other)]_vars

\* C32: the cascade listener never removes an edge whose source and target
\* nodes are both stored at the moment of the removal.
C32_ListenerSparesLiveEdges ==
  [][(last = Idle /\ last'.who = "listener")
     => \A e \in DOMAIN archive.edges \ DOMAIN archive'.edges :
          ~(/\ archive.edges[e].source \in DOMAIN archive.nodes
            /\ archive.edges[e].target \in DOMAIN archive.nodes)]_vars

\* C33: SaveThread succeeds for a root node that has a non-empty body or
\* whose blob file was written by an earlier save, and afterwards GetNode and
\* GetThread of the root id succeed: the thread's directory and the root's
\* blob never need one path to be both a directory and a file.
C33_ThreadDirAndRootBlobApart ==
  (/\ ArchiveRan("SaveThread")
   /\ \/ last.calls[1].arg[1].node.body # ""
      \/ IsFile(last.before.fs, last.calls[1].arg[1].node.id)
   /\ Len(last.calls[1].arg[1].edges) = 0) =>
    LET r == last.calls[1].arg[1].node.id
    IN /\ last.err = ""
       /\ GetNode(archive, r).err = ""
       /\ GetThread(archive, r).err = ""

\* C34: every persisted thread stays loadable: each edge id in its join rows
\* has an edge row, and GetThread of the thread does not fail.
C34_ThreadsStayLoadable ==
  \A id \in archive.threads :
    /\ \A j \in JoinsOf(archive.thread_edges, id) : j[2] \in DOMAIN archive.edges
    /\ GetThread(archive, id).err = ""

\* C35: DeleteThread(id) touches only the thread's row, its join rows, its
\* directory and its root node: every other node stored before the call is
\* still stored and GetNode returns it as before, and the edges, the other
\* threads and the annotations are as before.
C35_DeleteThreadFrame ==
  ArchiveRan("DeleteThread") =>
    /\ \A n \in DOMAIN last.before.nodes \ {DeletedId} :
         /\ n \in DOMAIN archive.nodes
         /\ GetNode(archive, n) = GetNode(last.before, n)
         /\ Exists(last.before.fs, n) =>
              (Exists(archive.fs, n) /\ archive.fs[n] = last.before.fs[n])
    /\ archive.edges = last.before.edges
    /\ archive.annotations = last.before.annotations
    /\ archive.threads \ {DeletedId} = last.before.threads \ {DeletedId}
    /\ archive.thread_edges \ JoinsOf(archive.thread_edges, DeletedId)
         = last.before.thread_edges \ JoinsOf(last.before.thread_edges, DeletedId)

\* A stored thread was deleted while another node with a body was stored.
C35_Witness ==
  /\ ArchiveRan("DeleteThread")
  /\ last.err = ""
  /\ DeletedId \in last.before.threads
  /\ IsDir(last.before.fs, DeletedId)
  /\ \E n \in DOMAIN last.before.nodes \ {DeletedId} :
       /\ GetNode(last.before, n).err = ""
       /\ GetNode(last.before, n).val[1].body = "b1"
       /\ GetNode(archive, n) = GetNode(last.before, n)

\* C36: after any sequence of SaveNode calls, GetNode of the id of the last
\* call returns exactly the node of that call, an empty body included.
C36_LastSaveIsRead ==
  ArchiveRan("SaveNode") =>
    /\ last.err = ""
    /\ GetNode(archive, last.calls[1].arg[1].id) = Found(last.calls[1].arg[1])

\* C37: when two writes of the same node were handled concurrently and both
\* have returned, the stored node, row and body together, is the node one of
\* them wrote.
C37_OneWriterWins ==
  (BothReturned /\ \A w \in Workers : run.proc[w].err = "") =>
    \E w \in Workers :
      GetNode(archive, run.proc[w].arg[1].id) = Found(run.proc[w].arg[1])

\* C38: no command is handled by a Repository whose Archive is unset: from
\* the moment the command subscription is active, whenever a command is
\* handled the repository has its archive.
C38_NoCommandWithoutArchive ==
  [][(last = Idle /\ last'.who = "repo") => app.wiring = "wired"]_vars

\* C39: SaveThread of a thread with one or more edges, run with no other
\* writer active, is not refused a write because of the lock its own open
\* transaction holds: it does not fail in saving an edge.
C39_SaveThreadNotSelfBlocked ==
  (/\ ArchiveRan("SaveThread")
   /\ Len(last.calls[1].arg[1].edges) >= 1) =>
    last.err # "failed to save thread edge"
====
